---- MODULE Spec2Model ----
(***************************************************************************)
(* Verification model of codex-teams: the agent-call adapter               *)
(* (CodexClientManager), the message bus (MessageSystem), the blocking     *)
(* wait primitive of the bus, the mission engine (runMission) with its     *)
(* status tools, and the task and agent tools of the team manager.         *)
(*                                                                         *)
(* Agent ids are opaque strings in the program; they are modelled as       *)
(* small integers so that the lexicographic comparison of dmKey is `<`.    *)
(***************************************************************************)
EXTENDS Integers, Sequences, FiniteSets, TLC

\* ------------------------------------------------------------------ bounds
MaxCalls == 3           \* adapter: number of sendToAgent submissions
MaxMsgs == 3            \* bus: number of group, lead and artifact posts in a run
MaxDms == 2             \* bus: number of DMs sent in a run
MaxWaitMsgs == 2         \* wait: number of messages appended in a run with waiters
MaxRetries == 1          \* mission: largest maxVerifyRetries a launch is given
MaxFix == 2              \* mission: most entries in the lead's array of fix assignments
MaxMissionMsgs == 1      \* mission: group messages posted while the mission runs
TickMinutes == 10        \* mission: minutes by which the clock advances in one step
MaxElapsed == 40         \* mission: minutes followed after the end of a mission
MaxTasks == 3            \* tasks: tasks created in the team
MaxTaskWork == 5         \* tasks: tasks created plus adapter calls issued for them
MaxOperatorCalls == 2    \* auto-start, operator: adapter calls issued by the tools
MaxAssigned == 2         \* auto-start: tasks created for the two agents
MaxOwnedTasks == 1       \* operator: tasks created while agents are messaged and removed
MaxCommsMsgs == 1        \* comms: messages and artifacts appended through sessions
MaxOps == 4              \* shutdown: operations registered with the tracker

\* ------------------------------------------------------------ universes
Agents == {1, 2, 3}             \* agent ids known to the message bus
Teams == {1, 2}                 \* team ids known to the message bus
AdapterAgents == {1, 2}         \* agents that receive adapter calls

\* The callers of the bus (the Comms Service, the mission engine, the
\* dissolve_team tool) pass the caller's own team, let only leads use the
\* lead channel, and allow a DM inside a team or between two leads.  The
\* roster the inputs are drawn from: team 1 = {1 (lead), 2}, team 2 = {3 (lead)}.
TeamOf(a) == IF a = 3 THEN 2 ELSE 1
Leads == {1, 3}
Members(t) == {a \in Agents : TeamOf(a) = t}
MayDm(a, b) == TeamOf(a) = TeamOf(b) \/ (a \in Leads /\ b \in Leads)
NoCall == 0
NoAgent == 0                    \* dmRead without a sender filter

VARIABLES
  \* --- CodexClientManager
  calls,              \* submitted sendToAgent calls, indexed by submission order
  agentLocks,         \* agentLocks: agent -> last submitted call (NoCall if none)
  downstream,         \* requests seen by the downstream session, in order
  connected,          \* this.connected
  reconnectPromise,   \* the connect() attempts of reconnect() in flight (0: the field is null)
  activeControllers,  \* activeControllers: agent -> call whose controller is registered
  agentStatus,        \* agent.status
  \* --- MessageSystem
  teamChats,          \* teamChats: team id -> channel (the domain is the key set)
  dms,                \* dms: the entries [key, messages, readCursors] in insertion order
  leadChat,           \* leadChat: the singleton channel
  sharedArtifacts,    \* sharedArtifacts: team id -> artifact list
  nextMsgId,          \* number of ids drawn so far (crypto.randomUUID never repeats)
  now,                \* the clock read by new Date()
  \* --- observation of the bus by its callers
  delivered,          \* reader -> ids of the messages its reads have returned
  \* --- wait primitive of the bus (observer registry)
  waiters,            \* agent -> its wait: none, pending (observer registered) or returned
  \* --- mission engine
  missions,           \* missions: the ids of the mission records in the map
  mission,            \* the MissionState record of the launched mission
  run,                \* the frame of runMission: position, loop counter, promises
  teams,              \* TeamManager.teams: the ids of the teams that exist
  evictionTimer,      \* the setTimeout of the finally block is armed
  elapsed,            \* minutes since runMission ended (0 until then)
  awaitCall,          \* the await_mission call of the operator
  phaseLog,           \* the values assigned to mission.phase, in order
  \* --- TeamManager and the operator tools of one team
  teamAgents,         \* team.agents: the ids of the agents of the team
  tasks,              \* team.tasks: the tasks in insertion order, indexed by task id
  callers,            \* the tool handler behind each sendToAgent call, parallel to calls
  lastResult,         \* the response of the tool call that returned last
  \* --- operator handlers suspended on a fan-out
  steer,              \* the frame of the steer_team handler
  dispatch,           \* the frame of the dispatch_team handler
  relay,              \* the two agentTurn loops of the counting relay and its log
  tracker,            \* pendingOps of the adapter and the position of shutdown()
  \* --- comms server and the tokens of the adapter
  agentTokens,        \* agentTokens: agent -> the token minted for it (NoToken if none)
  sessions,           \* the sessions of the comms server: session -> bound agent id
  commsResult         \* the response of the comms request that returned last

adapterVars == <<calls, agentLocks, downstream, connected, reconnectPromise,
                 activeControllers, agentStatus, agentTokens>>

busVars == <<teamChats, dms, leadChat, sharedArtifacts, nextMsgId, now, delivered>>

waitVars == <<waiters>>

missionVars == <<missions, mission, run, teams, evictionTimer, elapsed, awaitCall, phaseLog>>

taskVars == <<teamAgents, tasks, callers, lastResult>>
toolVars == <<steer, dispatch, relay, tracker>>
commsVars == <<sessions, commsResult>>
vars == <<adapterVars, busVars, waitVars, missionVars, taskVars, toolVars, commsVars>>

(***************************************************************************)
(* Agent adapter: CodexClientManager                                       *)
(***************************************************************************)
CallIds == 1..Len(calls)

Settled(st) == st \in {"ok", "err"}

\* the signal and the controller of a call are dropped when it settles
\* (finally block, listener registered with once: true)
Sent(c) == \E i \in 1..Len(downstream) : downstream[i] = c

\* prev.then(onFulfilled, onRejected): the queued call runs once the
\* previous call of the same agent has settled, with either outcome.
PrevSettledNoLock(c) == TRUE
PrevSettledOnlyFulfilled(c) ==
  IF calls[c].prev = NoCall THEN TRUE ELSE calls[calls[c].prev].st = "ok"
PrevSettled(c) ==
  IF calls[c].prev = NoCall THEN TRUE ELSE Settled(calls[calls[c].prev].st)

\* sendToAgent(agent, message, signal?)
sendToAgent(a, withSignal) ==
  /\ Len(calls) < MaxCalls
  /\ calls' = Append(calls, [agent |-> a, prev |-> agentLocks[a], st |-> "queued",
                             sig |-> IF withSignal THEN "live" ELSE "none",
                             aborted |-> FALSE])
  /\ agentLocks' = [agentLocks EXCEPT ![a] = Len(calls) + 1]
  /\ UNCHANGED <<downstream, connected, reconnectPromise, activeControllers, agentStatus, agentTokens>>

NoToken == 0

\* generateAgentToken(agentId): the token already minted for the agent, or a
\* fresh crypto.randomUUID(); the value drawn for one agent is drawn for no
\* other, which the model renders by numbering the token after its agent
generateAgentToken(a) ==
  IF agentTokens[a] # NoToken THEN agentTokens ELSE [agentTokens EXCEPT ![a] = a]

\* doSendToAgent from the controller creation up to the await of callTool:
\* the first request of an agent carries the URL of the comms server with the
\* token of the agent (threadId is null until a request has succeeded).
\* A request whose controller is already aborted, or that finds the
\* transport closed, is rejected by the client without being sent.
IssueRequest(c) ==
  LET a == calls[c].agent
      abortedNow == calls[c].sig = "aborted"
      sendIt == connected /\ ~abortedNow
  IN /\ activeControllers' = [activeControllers EXCEPT ![a] = c]
     /\ agentStatus' = [agentStatus EXCEPT ![a] = "working"]
     /\ calls' = [calls EXCEPT ![c].st = "inflight", ![c].aborted = ~sendIt]
     /\ downstream' = IF sendIt THEN Append(downstream, c) ELSE downstream
     /\ agentTokens' = generateAgentToken(a)

\* reconnect(): `if (this.reconnectPromise) return this.reconnectPromise`
\* joins the attempt in flight; otherwise one attempt is started
reconnectUncoalesced == reconnectPromise + 1
reconnect == IF reconnectPromise # 0 THEN reconnectPromise ELSE 1

\* doSendToAgent is entered when the agent lock is released.
doSendToAgent(c) ==
  /\ c \in CallIds
  /\ calls[c].st = "queued"
  /\ PrevSettled(c)
  /\ IF connected
       THEN /\ IssueRequest(c)
            /\ UNCHANGED <<agentLocks, connected, reconnectPromise>>
       ELSE \* await this.reconnect(): start one or join the one in flight
            /\ calls' = [calls EXCEPT ![c].st = "reconnecting"]
            /\ reconnectPromise' = reconnect
            /\ UNCHANGED <<agentLocks, downstream, connected, activeControllers, agentStatus, agentTokens>>

\* reconnect() settles: connect() succeeded or threw.  A failed reconnect
\* rejects every doSendToAgent awaiting it before its try block is entered.
reconnectSettles(ok) ==
  /\ reconnectPromise # 0
  /\ reconnectPromise' = 0
  /\ connected' = ok
  /\ calls' = [c \in CallIds |->
                 IF calls[c].st = "reconnecting"
                   THEN IF ok THEN [calls[c] EXCEPT !.st = "resumed"]
                              ELSE [calls[c] EXCEPT !.st = "err", !.sig = "none"]
                   ELSE calls[c]]
  /\ UNCHANGED <<agentLocks, downstream, activeControllers, agentStatus, agentTokens>>

\* doSendToAgent continues after `await this.reconnect()`.
resumeAfterReconnect(c) ==
  /\ c \in CallIds
  /\ calls[c].st = "resumed"
  /\ IssueRequest(c)
  /\ UNCHANGED <<agentLocks, connected, reconnectPromise>>

\* agent.status at the end of the try block or in the catch block
settledStatusStaysWorking(ok) == IF ok THEN "idle" ELSE "working"
settledStatus(ok) == IF ok THEN "idle" ELSE "error"

\* callTool settles; try / catch / finally of doSendToAgent.
callSettles(c, ok) ==
  /\ c \in CallIds
  /\ calls[c].st = "inflight"
  /\ ok => ~calls[c].aborted
  /\ calls' = [calls EXCEPT ![c].st = IF ok THEN "ok" ELSE "err",
                            ![c].sig = "none", ![c].aborted = FALSE]
  /\ agentStatus' = [agentStatus EXCEPT ![calls[c].agent] = settledStatus(ok)]
  /\ activeControllers' = [activeControllers EXCEPT ![calls[c].agent] = NoCall]
  /\ UNCHANGED <<agentLocks, downstream, connected, reconnectPromise, agentTokens>>

\* controller.abort(): the request of the call whose controller it is rejects
controllerAbortsQueue(c) ==
  [d \in CallIds |-> IF calls[d].agent = calls[c].agent /\ ~Settled(calls[d].st)
                       THEN [calls[d] EXCEPT !.aborted = TRUE] ELSE calls[d]]
controllerAbort(c) == [calls EXCEPT ![c].aborted = TRUE]

\* abortAgent(agentId), when it returns true
abortAgent(a) ==
  /\ activeControllers[a] # NoCall
  /\ calls' = controllerAbort(activeControllers[a])
  /\ activeControllers' = [activeControllers EXCEPT ![a] = NoCall]
  /\ UNCHANGED <<agentLocks, downstream, connected, reconnectPromise, agentStatus, agentTokens>>

\* The caller's AbortSignal fires (withTimeout): the listener installed by
\* doSendToAgent aborts the controller of a call that is in flight.
signalAborts(c) ==
  /\ c \in CallIds
  /\ calls[c].sig = "live"
  /\ ~Settled(calls[c].st)
  /\ calls' = [calls EXCEPT ![c].sig = "aborted",
                            ![c].aborted = (calls[c].st = "inflight") \/ calls[c].aborted]
  /\ UNCHANGED <<agentLocks, downstream, connected, reconnectPromise,
                 activeControllers, agentStatus, agentTokens>>

\* client.onclose: the downstream session is lost; pending requests reject.
connectionLost ==
  /\ connected
  /\ connected' = FALSE
  /\ calls' = [c \in CallIds |->
                 IF calls[c].st = "inflight" THEN [calls[c] EXCEPT !.aborted = TRUE]
                                            ELSE calls[c]]
  /\ UNCHANGED <<agentLocks, downstream, reconnectPromise, activeControllers, agentStatus, agentTokens>>

AdapterInit ==
  /\ calls = <<>>
  /\ agentLocks = [a \in AdapterAgents |-> NoCall]
  /\ downstream = <<>>
  /\ connected = TRUE
  /\ reconnectPromise = 0
  /\ activeControllers = [a \in AdapterAgents |-> NoCall]
  /\ agentStatus = [a \in AdapterAgents |-> "idle"]
  /\ agentTokens = [a \in AdapterAgents |-> NoToken]

(***************************************************************************)
(* Message bus: MessageSystem                                              *)
(***************************************************************************)
EmptyChannel == [messages |-> <<>>, readCursors |-> [a \in Agents |-> 0]]

\* getOrCreateChannel(map, key) for the teamChats map
getOrCreateChannel(map, key) == IF key \in DOMAIN map THEN map[key] ELSE EmptyChannel

\* Map.set / Map.delete
MapSet(map, key, val) == [k \in DOMAIN map \cup {key} |-> IF k = key THEN val ELSE map[k]]
MapDelete(map, key) == [k \in DOMAIN map \ {key} |-> map[k]]

getCursor(channel, agentId) == channel.readCursors[agentId]

\* dmKey(a, b): the two ids in ascending order, whatever the order given
dmKeyDirected(a, b) == <<a, b>>
dmKey(a, b) == IF a < b THEN <<a, b>> ELSE <<b, a>>

isDmParticipant(key, agentId) == key[1] = agentId \/ key[2] = agentId

\* new Date(): the clock does not run backwards; several messages may carry
\* the same millisecond.  Only the timestamps of DMs are ever compared, so
\* the clock is advanced where a DM is stamped.
Timestamps == {now, now + 1}

postMessage(channel, from, ts) ==
  [channel EXCEPT !.messages = Append(@, [id |-> nextMsgId + 1, from |-> from, ts |-> ts])]

\* channel.messages.slice(cursor)
SliceFrom(channel, agentId) ==
  SubSeq(channel.messages, getCursor(channel, agentId) + 1, Len(channel.messages))

NotFrom(seq, agentId) == SelectSeq(seq, LAMBDA m : m.from # agentId)
OnlyFrom(seq, agentId) == SelectSeq(seq, LAMBDA m : m.from = agentId)
UnfilteredSlice(seq, agentId) == seq
InvertedFilter(seq, agentId) == SelectSeq(seq, LAMBDA m : m.from = agentId)

\* the filter (m) => m.from !== agentId of readMessages and peekCount
OwnFilter(seq, agentId) == NotFrom(seq, agentId)

\* channel.readCursors.set(agentId, channel.messages.length)
AdvanceCursorByReturned(channel, agentId) ==
  [channel EXCEPT !.readCursors[agentId] =
     @ + Len(OwnFilter(SliceFrom(channel, agentId), agentId))]
AdvanceCursor(channel, agentId) ==
  [channel EXCEPT !.readCursors[agentId] = Len(channel.messages)]

\* readMessages(channel, agentId): the unread messages and the channel after
readMessagesOut(channel, agentId) == OwnFilter(SliceFrom(channel, agentId), agentId)
readMessagesChannel(channel, agentId) == AdvanceCursor(channel, agentId)

peekCount(channel, agentId) == Len(OwnFilter(SliceFrom(channel, agentId), agentId))

\* Array.prototype.sort by timestamp: stable
RECURSIVE InsertByTs(_, _)
InsertByTs(m, sorted) ==
  IF sorted = <<>> THEN <<m>>
  ELSE IF sorted[Len(sorted)].ts <= m.ts THEN Append(sorted, m)
  ELSE Append(InsertByTs(m, SubSeq(sorted, 1, Len(sorted) - 1)), sorted[Len(sorted)])

RECURSIVE SortByTs(_)
SortByTs(seq) ==
  IF seq = <<>> THEN <<>>
  ELSE InsertByTs(seq[Len(seq)], SortByTs(SubSeq(seq, 1, Len(seq) - 1)))

Ids(seq) == {seq[i].id : i \in 1..Len(seq)}

DmIndex(key) == {i \in 1..Len(dms) : dms[i].key = key}

\* the part of dmRead's loop body that collects from one entry of the map
dmReadCollect(entry, agentId, fromAgentId) ==
  IF ~isDmParticipant(entry.key, agentId) THEN <<>>
  ELSE IF fromAgentId # NoAgent THEN OnlyFrom(SliceFrom(entry, agentId), fromAgentId)
  ELSE readMessagesOut(entry, agentId)

\* the cursor effect of dmRead's loop body on one entry of the map: the
\* branch with a sender filter never writes a cursor
dmReadEntry(entry, agentId, fromAgentId) ==
  IF ~isDmParticipant(entry.key, agentId) THEN entry
  ELSE IF fromAgentId # NoAgent THEN entry
  ELSE readMessagesChannel(entry, agentId)

RECURSIVE dmReadAll(_, _, _)
dmReadAll(n, agentId, fromAgentId) ==
  IF n = 0 THEN <<>>
  ELSE dmReadAll(n - 1, agentId, fromAgentId) \o dmReadCollect(dms[n], agentId, fromAgentId)

\* the loop of dmPeek over the first n entries of the map
RECURSIVE dmPeekSum(_, _, _)
dmPeekSum(entries, n, agentId) ==
  IF n = 0 THEN 0
  ELSE dmPeekSum(entries, n - 1, agentId)
         + (IF isDmParticipant(entries[n].key, agentId) THEN peekCount(entries[n], agentId)
                                                        ELSE 0)

(***************************************************************************)
(* The wait primitive and its observer registry (spec section 4.2).        *)
(***************************************************************************)
\* blocked records that the call registered an observer before it returned
NoWait == [st |-> "none", team |-> 0, isLead |-> FALSE, blocked |-> FALSE,
           timedOut |-> FALSE, dissolved |-> FALSE,
           groupChat |-> 0, dms |-> 0, leadChat |-> 0]

\* the three unread counts of a waiter against a state of the channels
WaitCounts(a, team, isLead, chats, entries, lead) ==
  [groupChat |-> IF team \in DOMAIN chats THEN peekCount(chats[team], a) ELSE 0,
   dms |-> dmPeekSum(entries, Len(entries), a),
   leadChat |-> IF isLead THEN peekCount(lead, a) ELSE 0]

HasWork(c) == c.groupChat + c.dms + c.leadChat > 0

WaitResult(w, c, timedOut, dissolved) ==
  [w EXCEPT !.st = "returned", !.timedOut = timedOut, !.dissolved = dissolved,
            !.groupChat = c.groupChat, !.dms = c.dms, !.leadChat = c.leadChat]

\* the subscription set of the observer of agent a: its team, DMs addressed
\* to it, and the lead channel when it is a lead
Subscribed(a, tag) ==
  \/ tag.kind = "team" /\ tag.id = waiters[a].team
  \/ tag.kind = "dm" /\ tag.id = a
  \/ tag.kind = "lead" /\ waiters[a].isLead

\* publish(tag) after an append: every subscribed observer recounts; one
\* that has work resolves its wait and deregisters
Publish(tag, chats, entries, lead) ==
  [a \in Agents |->
     IF waiters[a].st = "pending" /\ Subscribed(a, tag)
       THEN LET c == WaitCounts(a, waiters[a].team, waiters[a].isLead, chats, entries, lead)
            IN IF HasWork(c) THEN WaitResult(waiters[a], c, FALSE, FALSE) ELSE waiters[a]
       ELSE waiters[a]]

\* the observers a dissolution reaches: those pinned to the team or to one
\* of the agent ids
PinnedNobody(a, teamId, agentIds) == FALSE
Pinned(a, teamId, agentIds) == waiters[a].team = teamId \/ a \in agentIds

\* publish(dissolve(agent_id)): the pinned waits return with dissolved = true
SignalDissolve(teamId, agentIds, chats, entries, lead) ==
  [a \in Agents |->
     IF waiters[a].st = "pending" /\ Pinned(a, teamId, agentIds)
       THEN WaitResult(waiters[a],
                       WaitCounts(a, waiters[a].team, waiters[a].isLead, chats, entries, lead),
                       FALSE, TRUE)
       ELSE waiters[a]]

\* wait(team, agent, isLead, timeout_ms): return at once when something is
\* unread, else register the observer and block
wait(team, a, isLead) ==
  LET c == WaitCounts(a, team, isLead, teamChats, dms, leadChat)
      w == [NoWait EXCEPT !.team = team, !.isLead = isLead]
  IN /\ waiters[a].st # "pending"
     /\ waiters' = [waiters EXCEPT ![a] =
                      IF HasWork(c) THEN WaitResult(w, c, FALSE, FALSE)
                                    ELSE [w EXCEPT !.st = "pending", !.blocked = TRUE]]
     /\ UNCHANGED busVars

\* the timeout of a pending wait elapses
waitTimeout(a) ==
  /\ waiters[a].st = "pending"
  /\ waiters' = [waiters EXCEPT ![a] =
                   WaitResult(@, WaitCounts(a, @.team, @.isLead, teamChats, dms, leadChat),
                              TRUE, FALSE)]
  /\ UNCHANGED busVars

Deliver(agentId, out) == [delivered EXCEPT ![agentId] = @ \cup Ids(out)]

\* the body of groupChatPost: append to the team channel and publish
groupChatAppend(teamId, agentId) ==
  /\ teamChats' = MapSet(teamChats, teamId,
                         postMessage(getOrCreateChannel(teamChats, teamId), agentId, now))
  /\ nextMsgId' = nextMsgId + 1
  /\ UNCHANGED <<dms, leadChat, sharedArtifacts, now, delivered>>
  /\ waiters' = Publish([kind |-> "team", id |-> teamId], teamChats', dms', leadChat')

\* groupChatPost(teamId, agentId, agentRole, message), within the post budget
groupChatPost(teamId, agentId) ==
  /\ nextMsgId < MaxMsgs
  /\ groupChatAppend(teamId, agentId)

\* groupChatRead(teamId, agentId)
groupChatRead(teamId, agentId) ==
  LET channel == getOrCreateChannel(teamChats, teamId)
      out == readMessagesOut(channel, agentId)
  IN /\ teamChats' = MapSet(teamChats, teamId, readMessagesChannel(channel, agentId))
     /\ delivered' = Deliver(agentId, out)
     /\ UNCHANGED <<dms, leadChat, sharedArtifacts, nextMsgId, now>>
     /\ UNCHANGED waitVars

\* groupChatPeek(teamId, agentId)
groupChatPeek(teamId, agentId) ==
  LET channel == getOrCreateChannel(teamChats, teamId)
  IN /\ teamChats' = MapSet(teamChats, teamId, channel)
     /\ UNCHANGED <<dms, leadChat, sharedArtifacts, nextMsgId, now, delivered>>
     /\ UNCHANGED waitVars

\* dmSend(fromAgentId, toAgentId, fromRole, message)
dmSend(fromAgentId, toAgentId, ts) ==
  LET key == dmKey(fromAgentId, toAgentId)
  IN /\ nextMsgId < MaxDms
     /\ dms' = IF DmIndex(key) = {}
                 THEN Append(dms, [key |-> key] @@ postMessage(EmptyChannel, fromAgentId, ts))
                 ELSE [i \in 1..Len(dms) |->
                         IF dms[i].key = key THEN postMessage(dms[i], fromAgentId, ts)
                                             ELSE dms[i]]
     /\ now' = ts
     /\ nextMsgId' = nextMsgId + 1
     /\ UNCHANGED <<teamChats, leadChat, sharedArtifacts, delivered>>
     /\ waiters' = Publish([kind |-> "dm", id |-> toAgentId], teamChats', dms', leadChat')

\* dmRead(agentId, fromAgentId?)
dmRead(agentId, fromAgentId) ==
  LET out == SortByTs(dmReadAll(Len(dms), agentId, fromAgentId))
  IN /\ dms' = [i \in 1..Len(dms) |-> dmReadEntry(dms[i], agentId, fromAgentId)]
     /\ delivered' = Deliver(agentId, out)
     /\ UNCHANGED <<teamChats, leadChat, sharedArtifacts, nextMsgId, now>>
     /\ UNCHANGED waitVars

\* dmPeek(agentId)
dmPeek(agentId) ==
  /\ dmPeekSum(dms, Len(dms), agentId) >= 0
  /\ UNCHANGED <<teamChats, dms, leadChat, sharedArtifacts, nextMsgId, now, delivered>>
  /\ UNCHANGED waitVars

\* leadChatPost(agentId, agentRole, teamName, message)
leadChatPost(agentId) ==
  /\ nextMsgId < MaxMsgs
  /\ leadChat' = postMessage(leadChat, agentId, now)
  /\ nextMsgId' = nextMsgId + 1
  /\ UNCHANGED <<teamChats, dms, sharedArtifacts, now, delivered>>
  /\ waiters' = Publish([kind |-> "lead", id |-> 0], teamChats', dms', leadChat')

\* leadChatRead(agentId)
leadChatRead(agentId) ==
  LET out == readMessagesOut(leadChat, agentId)
  IN /\ leadChat' = readMessagesChannel(leadChat, agentId)
     /\ delivered' = Deliver(agentId, out)
     /\ UNCHANGED <<teamChats, dms, sharedArtifacts, nextMsgId, now>>
     /\ UNCHANGED waitVars

\* leadChatPeek(agentId)
leadChatPeek(agentId) ==
  /\ peekCount(leadChat, agentId) >= 0
  /\ UNCHANGED <<teamChats, dms, leadChat, sharedArtifacts, nextMsgId, now, delivered>>
  /\ UNCHANGED waitVars

\* shareArtifact(teamId, agentId, data)
shareArtifact(teamId, agentId) ==
  /\ nextMsgId < MaxMsgs
  /\ sharedArtifacts' =
       MapSet(sharedArtifacts, teamId,
              Append(IF teamId \in DOMAIN sharedArtifacts THEN sharedArtifacts[teamId]
                                                          ELSE <<>>,
                     [id |-> nextMsgId + 1, from |-> agentId, ts |-> now]))
  /\ nextMsgId' = nextMsgId + 1
  /\ UNCHANGED <<teamChats, dms, leadChat, now, delivered>>
  /\ UNCHANGED waitVars

\* the DM entries that survive dissolveTeamWithAgents: an entry is deleted
\* when both participants are in agentIds
dmsAfterDissolve(agentIds) ==
  SelectSeq(dms, LAMBDA e : ~(e.key[1] \in agentIds /\ e.key[2] \in agentIds))

\* dissolveTeam(teamId)
dissolveTeam(teamId) ==
  /\ teamChats' = MapDelete(teamChats, teamId)
  /\ sharedArtifacts' = MapDelete(sharedArtifacts, teamId)
  /\ UNCHANGED <<dms, leadChat, nextMsgId, now, delivered>>
  /\ waiters' = SignalDissolve(teamId, {}, teamChats', dms', leadChat')

\* dissolveTeamWithAgents(teamId, agentIds)
dissolveTeamWithAgents(teamId, agentIds) ==
  /\ teamChats' = MapDelete(teamChats, teamId)
  /\ sharedArtifacts' = MapDelete(sharedArtifacts, teamId)
  /\ dms' = dmsAfterDissolve(agentIds)
  /\ leadChat' = [leadChat EXCEPT !.readCursors =
                    [a \in Agents |-> IF a \in agentIds THEN 0 ELSE @[a]]]
  /\ UNCHANGED <<nextMsgId, now, delivered>>
  /\ waiters' = SignalDissolve(teamId, agentIds, teamChats', dms', leadChat')

BusInit ==
  /\ teamChats = <<>>
  /\ dms = <<>>
  /\ leadChat = EmptyChannel
  /\ sharedArtifacts = <<>>
  /\ nextMsgId = 0
  /\ now = 0
  /\ delivered = [a \in Agents |-> {}]
  /\ waiters = [a \in Agents |-> NoWait]

(***************************************************************************)
(* Mission engine: launch_mission and runMission                           *)
(*                                                                         *)
(* codex.sendToAgent is represented by the promise it returns: pending,    *)
(* then fulfilled ("ok") or rejected ("err", which covers a failed tool    *)
(* call, a failed reconnect, an abort and the withTimeout deadline).       *)
(***************************************************************************)
\* the team launch_mission creates: one lead and two workers
MissionTeam == 1
missionLeadId == 1
missionWorkerIds == <<2, 3>>
WorkerSet == {missionWorkerIds[i] : i \in 1..Len(missionWorkerIds)}
MissionAgents == {missionLeadId} \cup WorkerSet

NoMission ==
  [phase |-> "none", workerResults |-> <<>>, verifyCommand |-> FALSE,
   maxVerifyRetries |-> 0, verificationLog |-> <<>>, finalReport |-> "",
   error |-> "", comms |-> <<>>]

NoRun ==
  [pc |-> "idle", attempt |-> 0, leadPromise |-> "none",
   workerPromises |-> <<>>, fixAssignments |-> <<>>, fixResults |-> <<>>]

\* what the lead may answer to the fix prompt: text without a [...] part,
\* text whose [...] part is not JSON, an array with a null entry, or an array
\* of {agentId, task} objects (given by the agent ids, in order)
AssignableIds == MissionAgents
RECURSIVE SeqsUpTo(_, _)
SeqsUpTo(S, n) ==
  IF n = 0 THEN {<<>>}
  ELSE SeqsUpTo(S, n - 1)
         \cup {Append(q, x) : q \in {p \in SeqsUpTo(S, n - 1) : Len(p) = n - 1}, x \in S}
FixResponses ==
  {[kind |-> k, ids |-> <<>>] : k \in {"noJson", "badJson", "nullEntry"}}
    \cup {[kind |-> "array", ids |-> q] : q \in SeqsUpTo(AssignableIds, MaxFix)}

\* fixResponse.match(/\[[\s\S]*\]/) and JSON.parse inside the try: a parse
\* failure leaves the empty array
parseFixAssignments(resp) ==
  IF resp.kind \in {"noJson", "badJson"} THEN <<>> ELSE resp.ids

\* fixAssignments.filter((a) => mission.workerIds.includes(a.agentId))
\* reads a.agentId of every entry: a null entry throws a TypeError
filterThrows(resp) == resp.kind = "nullEntry"
filterAssignments(ids) == SelectSeq(ids, LAMBDA id : id \in WorkerSet)

\* the snapshot getters of the bus
getTeamChatMessages(teamId) ==
  IF teamId \in DOMAIN teamChats THEN teamChats[teamId].messages ELSE <<>>
getSharedArtifacts(teamId) ==
  IF teamId \in DOMAIN sharedArtifacts THEN sharedArtifacts[teamId] ELSE <<>>
getLeadChatMessages(agentIds) ==
  SelectSeq(leadChat.messages, LAMBDA m : m.from \in agentIds)
RECURSIVE dmMessagesOf(_, _)
dmMessagesOf(n, agentIds) ==
  IF n = 0 THEN <<>>
  ELSE dmMessagesOf(n - 1, agentIds)
         \o (IF dms[n].key[1] \in agentIds \/ dms[n].key[2] \in agentIds
               THEN dms[n].messages ELSE <<>>)
getAllDmMessages(agentIds) == SortByTs(dmMessagesOf(Len(dms), agentIds))

\* Promise.all over promises that never reject, Promise.allSettled: the
\* await resumes when every promise has settled, fulfilled or rejected
AllFulfilled(promises) == \A i \in 1..Len(promises) : promises[i] = "ok"
AllSettled(promises) == \A i \in 1..Len(promises) : promises[i] \in {"ok", "err"}

SetPhase(p) == phaseLog' = Append(phaseLog, p)

\* setTimeout(..., 30 * 60 * 1000)
RetentionMinutes == 30

NoAwait == [st |-> "none", id |-> 0, phase |-> "", finalReport |-> "", error |-> ""]

MissionInit ==
  /\ missions = {}
  /\ mission = NoMission
  /\ run = NoRun
  /\ teams = {}
  /\ evictionTimer = FALSE
  /\ elapsed = 0
  /\ awaitCall = NoAwait
  /\ phaseLog = <<>>

\* the record a worker promise resolves to (.then / .catch of runMission)
WorkerRecord(agentId, promise, output) ==
  [agentId |-> agentId,
   status |-> IF promise = "ok" THEN "success" ELSE "error",
   output |-> output]

\* if (verification.passed) break
NeverBreaks(passed) == FALSE
VerifyBreaks(passed) == passed

\* if (attempt <= mission.maxVerifyRetries)
RetriesLeftOffByOne(attempt, maxVerifyRetries) == attempt <= maxVerifyRetries + 1
RetriesLeft(attempt, maxVerifyRetries) == attempt <= maxVerifyRetries

\* catch (error): mission.phase = "error"; mission.error = message
CatchBlockDropsResults(m, err) ==
  [m EXCEPT !.phase = "error", !.error = err, !.workerResults = <<>>,
            !.verificationLog = <<>>]
CatchBlock(m, err) == [m EXCEPT !.phase = "error", !.error = err]

\* mission.workerResults.find((wr) => wr.agentId === id): the first match
FindResult(results, id) ==
  IF \E k \in 1..Len(results) : results[k].agentId = id
    THEN CHOOSE k \in 1..Len(results) :
           results[k].agentId = id /\ \A j \in 1..(k - 1) : results[j].agentId # id
    ELSE 0

\* the loop over fixAssignments that overwrites the result records, run for
\* the first n assignments
RECURSIVE ApplyFixResults(_, _, _, _, _)
ApplyFixResults(results, assignments, fixResults, attempt, n) ==
  IF n = 0 THEN results
  ELSE LET r == ApplyFixResults(results, assignments, fixResults, attempt, n - 1)
           k == FindResult(r, assignments[n])
       IN IF k = 0 THEN r
          ELSE [r EXCEPT ![k] = WorkerRecord(assignments[n], fixResults[n],
                                             <<"fix", attempt, n>>)]

\* the comms snapshot of the finally block
Snapshot(agentIds) ==
  [groupChat |-> getTeamChatMessages(MissionTeam),
   dms |-> getAllDmMessages(agentIds),
   leadChat |-> getLeadChatMessages(agentIds),
   sharedArtifacts |-> getSharedArtifacts(MissionTeam)]

\* TeamManager.dissolveTeam(teamId): teams.delete
stateDissolveTeamSkipped(teamId) == UNCHANGED teams
stateDissolveTeam(teamId) == teams' = teams \ {teamId}

\* the end of runMission: m is the record as the try or the catch block
\* leaves it; the finally block snapshots the channels, dissolves the team on
\* the bus and in the team manager, and arms the eviction timer
Finally(m) ==
  /\ mission' = [m EXCEPT !.comms = Snapshot(MissionAgents)]
  /\ SetPhase(m.phase)
  /\ run' = [run EXCEPT !.pc = "done"]
  /\ dissolveTeamWithAgents(MissionTeam, MissionAgents)
  /\ stateDissolveTeam(MissionTeam)
  /\ evictionTimer' = TRUE
  /\ UNCHANGED <<elapsed, awaitCall>>
  /\ UNCHANGED missions

\* the tail of the try block from mission.phase = "reviewing": the
\* compilation call is issued
StartReviewing(m) ==
  /\ mission' = [m EXCEPT !.phase = "reviewing"]
  /\ SetPhase("reviewing")
  /\ run' = [run EXCEPT !.pc = "compile"]

\* launch_mission with exactly one lead: the team and the mission record are
\* created and runMission runs up to its first await
launch_mission(verifyCommand, maxVerifyRetries) ==
  /\ run.pc = "idle"
  /\ teams' = teams \cup {MissionTeam}
  /\ missions' = missions \cup {1}
  /\ mission' = [NoMission EXCEPT !.phase = "executing",
                                  !.verifyCommand = verifyCommand,
                                  !.maxVerifyRetries = maxVerifyRetries]
  /\ SetPhase("executing")
  /\ run' = [NoRun EXCEPT !.pc = "awaitWorkers", !.leadPromise = "pending",
                          !.workerPromises = [i \in 1..Len(missionWorkerIds) |-> "pending"]]
  /\ UNCHANGED <<evictionTimer, elapsed, awaitCall, busVars, waitVars>>

\* the call of a worker settles (or its withTimeout deadline passes)
workerPromiseSettles(i, ok) ==
  /\ run.pc = "awaitWorkers"
  /\ i \in 1..Len(run.workerPromises)
  /\ run.workerPromises[i] = "pending"
  /\ run' = [run EXCEPT !.workerPromises[i] = IF ok THEN "ok" ELSE "err"]
  /\ UNCHANGED <<missions, mission, teams, evictionTimer, elapsed, awaitCall, phaseLog, busVars, waitVars>>

\* the first call of the lead settles
leadPromiseSettles(ok) ==
  /\ run.leadPromise = "pending"
  /\ run' = [run EXCEPT !.leadPromise = IF ok THEN "ok" ELSE "err"]
  /\ UNCHANGED <<missions, mission, teams, evictionTimer, elapsed, awaitCall, phaseLog, busVars, waitVars>>

\* await Promise.all(workerPromises) resumes: mission.workerResults is set
workersDone ==
  /\ run.pc = "awaitWorkers"
  /\ AllSettled(run.workerPromises)
  /\ mission' = [mission EXCEPT !.workerResults =
                   [i \in 1..Len(missionWorkerIds) |->
                      WorkerRecord(missionWorkerIds[i], run.workerPromises[i], <<"exec">>)]]
  /\ run' = [run EXCEPT !.pc = "awaitLead"]
  /\ UNCHANGED <<missions, teams, evictionTimer, elapsed, awaitCall, phaseLog, busVars, waitVars>>

\* await leadPromise.catch(() => {}) resumes, whatever the outcome
leadAwaited ==
  /\ run.pc = "awaitLead"
  /\ run.leadPromise \in {"ok", "err"}
  /\ IF mission.verifyCommand
       THEN /\ mission' = [mission EXCEPT !.phase = "verifying"]
            /\ SetPhase("verifying")
            /\ run' = [run EXCEPT !.pc = "verify", !.attempt = 1]
       ELSE StartReviewing(mission)
  /\ UNCHANGED <<missions, teams, evictionTimer, elapsed, awaitCall, busVars, waitVars>>

\* the head of the verify loop after a fix round: m is the record with phase
\* "verifying", r the frame; the loop runs while attempt <= maxVerifyRetries + 1
NextAttempt(m, r) ==
  IF r.attempt + 1 <= m.maxVerifyRetries + 1
    THEN /\ mission' = m
         /\ SetPhase("verifying")
         /\ run' = [r EXCEPT !.pc = "verify", !.attempt = @ + 1]
    ELSE /\ mission' = [m EXCEPT !.phase = "reviewing"]
         /\ phaseLog' = phaseLog \o <<"verifying", "reviewing">>
         /\ run' = [r EXCEPT !.pc = "compile", !.attempt = @ + 1]

\* runVerifyCommand resolves: the attempt is logged; on a pass, or when no
\* retry is left, the loop ends and the mission goes to reviewing; else the
\* lead is asked for fix assignments
verifyCommandExits(passed) ==
  LET logged == [mission EXCEPT !.verificationLog =
                   Append(@, [attempt |-> run.attempt, passed |-> passed])]
  IN /\ run.pc = "verify"
     /\ IF VerifyBreaks(passed)
          THEN StartReviewing(logged)
          ELSE IF RetriesLeft(run.attempt, mission.maxVerifyRetries)
            THEN /\ mission' = [logged EXCEPT !.phase = "fixing"]
                 /\ SetPhase("fixing")
                 /\ run' = [run EXCEPT !.pc = "fixLead"]
            ELSE IF run.attempt + 1 <= mission.maxVerifyRetries + 1
              THEN /\ mission' = logged
                   /\ run' = [run EXCEPT !.attempt = @ + 1]
                   /\ UNCHANGED phaseLog
              ELSE StartReviewing(logged)
     /\ UNCHANGED <<missions, teams, evictionTimer, elapsed, awaitCall, busVars, waitVars>>

\* await codex.sendToAgent(lead, fixPrompt) resumes: a rejection, or the
\* TypeError of the filter, goes to the catch block; else the assignments
\* are parsed and filtered and the fix calls are issued
fixResponseSettles(ok, resp) ==
  LET assignments == filterAssignments(parseFixAssignments(resp))
  IN /\ run.pc = "fixLead"
     /\ IF ~ok
          THEN Finally(CatchBlock(mission, "lead call failed"))
          ELSE IF filterThrows(resp)
            THEN Finally(CatchBlock(mission, "TypeError"))
          ELSE /\ IF Len(assignments) > 0
                    THEN /\ run' = [run EXCEPT !.pc = "fixWorkers",
                                               !.fixAssignments = assignments,
                                               !.fixResults =
                                                 [i \in 1..Len(assignments) |-> "pending"]]
                         /\ UNCHANGED <<mission, phaseLog>>
                    ELSE NextAttempt([mission EXCEPT !.phase = "verifying"], run)
               /\ UNCHANGED <<missions, teams, evictionTimer, elapsed, awaitCall, busVars, waitVars>>

\* the call of a fix assignment settles; calls to one worker run in the
\* order of the assignments (agent lock)
fixResultSettles(i, ok) ==
  /\ run.pc = "fixWorkers"
  /\ i \in 1..Len(run.fixResults)
  /\ run.fixResults[i] = "pending"
  /\ \A j \in 1..(i - 1) :
       run.fixAssignments[j] = run.fixAssignments[i] => run.fixResults[j] # "pending"
  /\ run' = [run EXCEPT !.fixResults[i] = IF ok THEN "ok" ELSE "err"]
  /\ UNCHANGED <<missions, mission, teams, evictionTimer, elapsed, awaitCall, phaseLog, busVars, waitVars>>

\* await Promise.allSettled(...) resumes: the result records are overwritten
\* and the loop goes to its next attempt
fixRoundDone ==
  /\ run.pc = "fixWorkers"
  /\ AllSettled(run.fixResults)
  /\ NextAttempt([mission EXCEPT
                    !.workerResults = ApplyFixResults(@, run.fixAssignments, run.fixResults,
                                                      run.attempt, Len(run.fixAssignments)),
                    !.phase = "verifying"],
                 [run EXCEPT !.fixAssignments = <<>>, !.fixResults = <<>>])
  /\ UNCHANGED <<missions, teams, evictionTimer, elapsed, awaitCall, busVars, waitVars>>

\* await codex.sendToAgent(lead, compilationPrompt) resumes
compilationSettles(ok) ==
  /\ run.pc = "compile"
  /\ IF ok
       THEN Finally([mission EXCEPT !.finalReport = "report", !.phase = "completed"])
       ELSE Finally(CatchBlock(mission, "lead call failed"))

\* setTimeout(() => missions.delete(mission.id), 30 * 60 * 1000): the timer
\* is due once the retention period has elapsed since it was armed
timerDueAtOnce(t) == t >= 0
timerDue(t) == t >= RetentionMinutes

\* the timer of the finally block fires: missions.delete(mission.id)
evictMission ==
  /\ evictionTimer
  /\ timerDue(elapsed)
  /\ evictionTimer' = FALSE
  /\ missions' = missions \ {1}
  /\ UNCHANGED <<mission, run, teams, elapsed, awaitCall, phaseLog, busVars, waitVars>>

\* time passes after the end of runMission; a timer that is due fires
\* before more time passes
timePasses ==
  /\ run.pc = "done"
  /\ elapsed < MaxElapsed
  /\ ~(evictionTimer /\ timerDue(elapsed))
  /\ elapsed' = elapsed + TickMinutes
  /\ UNCHANGED <<missions, mission, run, teams, evictionTimer, awaitCall, phaseLog,
                 busVars, waitVars>>

\* the mission ids an operator may name: the launched mission and an id
\* that was never issued
MissionIds == {1, 2}

toolError(kind) == [isError |-> TRUE, kind |-> kind]

\* mission_status(missionId)
mission_status(missionId) ==
  IF missionId \notin missions THEN toolError("not_found")
  ELSE [isError |-> FALSE, kind |-> "ok", phase |-> mission.phase,
        finalReport |-> mission.finalReport, error |-> mission.error]

\* formatMsg of get_mission_comms: sender, text and time of a message (the
\* id of a message stands for its text)
formatMsg(m) == [from |-> m.from, text |-> m.id, time |-> m.ts]
FormatAll(seq) == [i \in 1..Len(seq) |-> formatMsg(seq[i])]
FormatComms(comms) ==
  [groupChat |-> FormatAll(comms.groupChat), dms |-> FormatAll(comms.dms),
   leadChat |-> FormatAll(comms.leadChat),
   sharedArtifacts |-> FormatAll(comms.sharedArtifacts)]

\* get_mission_comms(missionId)
get_mission_comms(missionId) ==
  IF missionId \notin missions THEN toolError("not_found")
  ELSE IF mission.comms = <<>> THEN toolError("not_ready")
  ELSE [isError |-> FALSE, kind |-> "ok", phase |-> mission.phase,
        comms |-> FormatComms(mission.comms),
        workerResults |-> mission.workerResults,
        verificationLog |-> mission.verificationLog]

\* what await_mission does to the missions map when it returns
missionsAfterAwaitDeleted(missionId) == missions \ {missionId}
missionsAfterAwait(missionId) == missions

\* check() of waitForMission: a missing record rejects, a terminal phase
\* resolves, an elapsed timeout rejects, else the next poll is scheduled;
\* on resolve await_mission returns phase, final report and error
waitForMissionCheck(missionId, timedOut) ==
  IF missionId \notin missions
    THEN /\ awaitCall' = [NoAwait EXCEPT !.st = "not_found", !.id = missionId]
         /\ UNCHANGED missions
  ELSE IF mission.phase \in {"completed", "error"}
    THEN /\ awaitCall' = [st |-> "returned", id |-> missionId, phase |-> mission.phase,
                          finalReport |-> mission.finalReport, error |-> mission.error]
         /\ missions' = missionsAfterAwait(missionId)
  ELSE IF timedOut
    THEN /\ awaitCall' = [NoAwait EXCEPT !.st = "timeout", !.id = missionId]
         /\ UNCHANGED missions
  ELSE /\ awaitCall' = [NoAwait EXCEPT !.st = "polling", !.id = missionId]
       /\ UNCHANGED missions

\* await_mission(missionId, pollIntervalMs, timeoutMs): the first check
await_mission(missionId) ==
  /\ awaitCall.st = "none"
  /\ waitForMissionCheck(missionId, FALSE)
  /\ UNCHANGED <<mission, run, teams, evictionTimer, elapsed, phaseLog, busVars, waitVars>>

\* setTimeout(check, pollMs) fires
awaitPolls(timedOut) ==
  /\ awaitCall.st = "polling"
  /\ waitForMissionCheck(awaitCall.id, timedOut)
  /\ awaitCall' # awaitCall
  /\ UNCHANGED <<mission, run, teams, evictionTimer, elapsed, phaseLog, busVars, waitVars>>

\* an agent of the mission team posts to the group chat while the team exists
missionGroupPost(a) ==
  /\ MissionTeam \in teams
  /\ nextMsgId < MaxMissionMsgs
  /\ groupChatPost(MissionTeam, a)
  /\ UNCHANGED missionVars

(***************************************************************************)
(* TeamManager and the operator tools: remove_agent, send_message,         *)
(* assign_task and complete_task on one team.  Task ids are the positions  *)
(* of the tasks in team.tasks; NoTask is an id no task has.                *)
(***************************************************************************)
NoTask == 0
TaskIds == 1..Len(tasks)

\* the dependency lists an operator may pass for the next task: the
\* existing task ids in any combination, or an id no task has
DependencyLists == (SUBSET TaskIds) \cup {{NoTask}}

Range(seq) == {seq[i] : i \in 1..Len(seq)}

NoResult == [tool |-> "none", kind |-> "none", agentId |-> NoAgent]
toolResponse(tool, kind, agentId) == [tool |-> tool, kind |-> kind, agentId |-> agentId]

TaskInit ==
  /\ teamAgents = AdapterAgents
  /\ tasks = <<>>
  /\ callers = <<>>
  /\ lastResult = NoResult

\* agent.tasks: createTask pushes the id and nothing removes it
agentTasks(agentId) == {t \in TaskIds : tasks[t].assignedTo = agentId}

\* TeamManager.removeAgent and the remove_agent handler around it
removeAgentIgnoresTasks(agentId) ==
  IF agentId \notin teamAgents THEN "not_found"
  ELSE IF agentStatus[agentId] = "working" THEN "busy"
  ELSE "removed"
removeAgent(agentId) ==
  IF agentId \notin teamAgents THEN "not_found"
  ELSE IF agentStatus[agentId] = "working" THEN "busy"
  ELSE IF Cardinality(agentTasks(agentId)) > 0 THEN "busy"
  ELSE "removed"

remove_agent(agentId) ==
  /\ teamAgents' = IF removeAgent(agentId) = "removed" THEN teamAgents \ {agentId}
                                                        ELSE teamAgents
  /\ lastResult' = toolResponse("remove_agent", removeAgent(agentId), agentId)
  /\ UNCHANGED <<tasks, callers, adapterVars>>

\* the status check of the send_message handler
sendMessageUnchecked(status) == FALSE
sendMessageRefused(status) == status = "working"

\* send_message(teamId, agentId, message) up to the await of sendToAgent
send_message(agentId) ==
  IF agentId \notin teamAgents
    THEN /\ lastResult' = toolResponse("send_message", "not_found", agentId)
         /\ UNCHANGED <<teamAgents, tasks, callers, adapterVars>>
  ELSE IF sendMessageRefused(agentStatus[agentId])
    THEN /\ lastResult' = toolResponse("send_message", "busy", agentId)
         /\ UNCHANGED <<teamAgents, tasks, callers, adapterVars>>
  ELSE /\ sendToAgent(agentId, FALSE)
       /\ callers' = Append(callers, [tool |-> "send_message", task |-> NoTask,
                                      returned |-> "no", status |-> ""])
       /\ UNCHANGED <<teamAgents, tasks, lastResult>>

\* TeamManager.createTask
createTask(agentId, dependencies) ==
  Append(tasks, [status |-> "pending", assignedTo |-> agentId,
                 dependencies |-> dependencies])

\* dep?.status === "completed"
depCompleted(ts, depId) ==
  IF depId \in 1..Len(ts) THEN ts[depId].status = "completed" ELSE FALSE

\* hasUnmetDeps of the assign_task handler
hasUnmetDeps(dependencies) == \E depId \in dependencies : ~depCompleted(tasks, depId)

\* agent && agent.status !== "working" of assign_task and complete_task
startsOnlyIdle(agentId) ==
  IF agentId \in teamAgents THEN agentStatus[agentId] = "idle" ELSE FALSE
agentAvailable(agentId) ==
  IF agentId \in teamAgents THEN agentStatus[agentId] # "working" ELSE FALSE

\* assign_task(teamId, agentId, description, dependencies) up to the await
\* of sendToAgent, or to its return when the task is not started (an error
\* response when createTask throws, else the task as created)
assign_task(agentId, dependencies) ==
  /\ Len(tasks) < MaxTasks
  /\ IF agentId \notin teamAgents
       THEN UNCHANGED <<taskVars, adapterVars>>
     ELSE IF ~hasUnmetDeps(dependencies) /\ agentAvailable(agentId)
       THEN /\ tasks' = [createTask(agentId, dependencies)
                           EXCEPT ![Len(tasks) + 1].status = "in-progress"]
            /\ sendToAgent(agentId, FALSE)
            /\ callers' = Append(callers, [tool |-> "assign_task", task |-> Len(tasks) + 1,
                                           returned |-> "no", status |-> ""])
            /\ UNCHANGED <<teamAgents, lastResult>>
     ELSE /\ tasks' = createTask(agentId, dependencies)
          /\ UNCHANGED <<teamAgents, callers, lastResult, adapterVars>>

\* TeamManager.completeTask: the task is marked completed, then team.tasks
\* is scanned in insertion order for the candidates it unblocks
markCompleted(ts, taskId) == [ts EXCEPT ![taskId].status = "completed"]
allDepsCompletedSkipped(ts, candidate) == TRUE
allDepsCompleted(ts, candidate) ==
  \A depId \in ts[candidate].dependencies : depCompleted(ts, depId)
RECURSIVE scanCandidates(_, _, _, _)
scanCandidates(ts, taskId, candidate, unblockedTaskIds) ==
  IF candidate > Len(ts) THEN unblockedTaskIds
  ELSE IF ts[candidate].status # "pending" \/ ts[candidate].dependencies = {}
    THEN scanCandidates(ts, taskId, candidate + 1, unblockedTaskIds)
  ELSE IF taskId \notin ts[candidate].dependencies
    THEN scanCandidates(ts, taskId, candidate + 1, unblockedTaskIds)
  ELSE IF allDepsCompleted(ts, candidate)
    THEN scanCandidates(ts, taskId, candidate + 1, Append(unblockedTaskIds, candidate))
  ELSE scanCandidates(ts, taskId, candidate + 1, unblockedTaskIds)
completeTask(ts, taskId) == scanCandidates(markCompleted(ts, taskId), taskId, 1, <<>>)

\* sendToAgent for each triggered task in turn
RECURSIVE sendToAgents(_, _, _)
sendToAgents(cs, locks, agentIds) ==
  IF agentIds = <<>> THEN [calls |-> cs, agentLocks |-> locks]
  ELSE sendToAgents(Append(cs, [agent |-> Head(agentIds), prev |-> locks[Head(agentIds)],
                                st |-> "queued", sig |-> "none", aborted |-> FALSE]),
                    [locks EXCEPT ![Head(agentIds)] = Len(cs) + 1],
                    Tail(agentIds))

\* complete_task(teamId, taskId, result): the whole handler; the calls that
\* start the unblocked tasks run in the background and the handler returns
\* its success response without awaiting them
complete_task(taskId) ==
  IF taskId \notin TaskIds
    THEN UNCHANGED <<taskVars, adapterVars>>
  ELSE LET done == markCompleted(tasks, taskId)
           unblockedIds == completeTask(tasks, taskId)
           triggered == SelectSeq(unblockedIds, LAMBDA u : agentAvailable(done[u].assignedTo))
           sent == sendToAgents(calls, agentLocks,
                                [i \in 1..Len(triggered) |-> done[triggered[i]].assignedTo])
       IN /\ Len(calls) + Len(triggered) <= MaxCalls
          /\ tasks' = [t \in 1..Len(done) |->
                         IF t \in Range(triggered) THEN [done[t] EXCEPT !.status = "in-progress"]
                                                   ELSE done[t]]
          /\ calls' = sent.calls
          /\ agentLocks' = sent.agentLocks
          /\ callers' = callers \o [i \in 1..Len(triggered) |->
                                      [tool |-> "complete_task", task |-> triggered[i],
                                       returned |-> "ok", status |-> "in-progress"]]
          /\ UNCHANGED <<teamAgents, lastResult, downstream, connected, reconnectPromise,
                         activeControllers, agentStatus, agentTokens>>

\* the catch of an auto-start call: task.status = "pending"
keepStatus(ts, c) == ts
revertToPending(ts, c) ==
  IF callers[c].tool \in {"assign_task", "complete_task"}
    THEN [ts EXCEPT ![callers[c].task].status = "pending"]
    ELSE ts

\* the handlers continue when their calls settle: st maps the settling calls
\* to "ok" or "err"; a failed auto-start reverts its task, then assign_task
\* and send_message return
RECURSIVE tasksAfter(_, _, _)
tasksAfter(ts, c, settled) ==
  IF c > Len(callers) THEN ts
  ELSE tasksAfter(IF c \in DOMAIN settled /\ settled[c] = "err" THEN revertToPending(ts, c)
                                                               ELSE ts,
                  c + 1, settled)
callersAfter(settled, ts) ==
  [c \in 1..Len(callers) |->
     IF c \notin DOMAIN settled THEN callers[c]
     ELSE IF callers[c].tool = "assign_task"
       THEN [callers[c] EXCEPT !.returned = "ok", !.status = ts[callers[c].task].status]
     ELSE IF callers[c].tool = "send_message"
       THEN [callers[c] EXCEPT !.returned = IF settled[c] = "ok" THEN "ok" ELSE "error"]
     ELSE callers[c]]

\* callTool settles and the handler awaiting the call continues
toolCallSettles(c, ok) ==
  /\ callSettles(c, ok)
  /\ LET settled == (c :> IF ok THEN "ok" ELSE "err")
     IN /\ tasks' = tasksAfter(tasks, 1, settled)
        /\ callers' = callersAfter(settled, tasksAfter(tasks, 1, settled))
  /\ UNCHANGED <<teamAgents, lastResult>>

\* reconnect() settles; when it failed, every call awaiting it rejects and
\* the handlers awaiting those calls continue
toolReconnectSettles(ok) ==
  /\ reconnectSettles(ok)
  /\ LET rejected == {c \in CallIds : calls[c].st = "reconnecting" /\ ~ok}
         settled == [c \in rejected |-> "err"]
     IN /\ tasks' = tasksAfter(tasks, 1, settled)
        /\ callers' = callersAfter(settled, tasksAfter(tasks, 1, settled))
  /\ UNCHANGED <<teamAgents, lastResult>>

(***************************************************************************)
(* Claims about the agent adapter (checked under SpecAdapter)              *)
(***************************************************************************)
SameAgent(c, d) == calls[c].agent = calls[d].agent

\* C1: for any interleaving of concurrent sendToAgent calls, the requests
\* the downstream session sees for one agent appear in the order in which
\* the calls were submitted (call ids are assigned in submission order).
C1_AdapterPerAgentFifo ==
  \A i, j \in 1..Len(downstream) :
    (i < j /\ SameAgent(downstream[i], downstream[j])) => downstream[i] < downstream[j]

\* Two requests of one agent were seen while a request of another agent,
\* submitted between them, overtook the second one.
C1_Witness ==
  \E i, j, k \in 1..Len(downstream) :
    /\ i < j /\ SameAgent(downstream[i], downstream[j])
    /\ k < j /\ ~SameAgent(downstream[k], downstream[j])
    /\ downstream[k] > downstream[j]

\* C2: calls of one agent are strictly sequential.  At most one request per
\* agent is outstanding; a call leaves the queue only after the previous call
\* of the agent has settled; and a queued call whose predecessor has settled,
\* by success or by failure, is free to run.
C2_AgentLockSequential ==
  /\ \A a \in AdapterAgents :
       Cardinality({c \in CallIds : calls[c].agent = a /\ calls[c].st = "inflight"}) <= 1
  /\ \A c \in CallIds :
       (calls[c].st # "queued" /\ calls[c].prev # NoCall)
         => calls[calls[c].prev].st \in {"ok", "err"}
  /\ \A c \in CallIds :
       (calls[c].st = "queued" /\ calls[c].prev # NoCall
          /\ calls[calls[c].prev].st \in {"ok", "err"})
         => ENABLED doSendToAgent(c)

\* A request is outstanding for a call that queued behind a failed call.
C2_Witness ==
  \E c \in CallIds :
    /\ calls[c].st = "inflight" /\ Sent(c)
    /\ calls[c].prev # NoCall
    /\ calls[calls[c].prev].st = "err"

(***************************************************************************)
(* Claims about the message bus (checked under SpecBus and SpecDm)         *)
(***************************************************************************)
GroupChannelOf(a) == getOrCreateChannel(teamChats, TeamOf(a))

\* what the reads open to reader a would return in the current state
ReadableNow(a) ==
  UNION ({Ids(SortByTs(dmReadAll(Len(dms), a, f))) : f \in Agents \cup {NoAgent}}
         \cup {Ids(readMessagesOut(GroupChannelOf(a), a))}
         \cup {IF a \in Leads THEN Ids(readMessagesOut(leadChat, a)) ELSE {}})

\* C3: for every reader and every channel (group chat, lead chat, DMs read
\* with or without a sender filter), a read never returns a message that an
\* earlier read already returned to the same reader: in every reachable state
\* the result of every read the reader can issue is disjoint from what its
\* earlier reads returned.
C3_CursorMonotonicity == \A a \in Agents : ReadableNow(a) \cap delivered[a] = {}

UnreadOthers(channel, a) ==
  {i \in (getCursor(channel, a) + 1)..Len(channel.messages) : channel.messages[i].from # a}

NoOwnMessage(seq, a) == \A i \in 1..Len(seq) : seq[i].from # a

Pending(a) == waiters[a].st = "pending"

\* this step appended one message of a sender other than a to the channel
GrewByOther(old, new, a) ==
  /\ Len(new.messages) = Len(old.messages) + 1
  /\ new.messages[Len(new.messages)].from # a

DmEntryOf(entries, key) ==
  IF \E j \in 1..Len(entries) : entries[j].key = key
    THEN entries[CHOOSE j \in 1..Len(entries) : entries[j].key = key]
    ELSE [key |-> key, messages |-> <<>>, readCursors |-> [x \in Agents |-> 0]]

PostedToGroup(a) ==
  LET t == waiters[a].team
  IN t \in DOMAIN teamChats'
       /\ GrewByOther(getOrCreateChannel(teamChats, t), teamChats'[t], a)

PostedToDm(a) ==
  \E i \in 1..Len(dms') :
    /\ isDmParticipant(dms'[i].key, a)
    /\ GrewByOther(DmEntryOf(dms, dms'[i].key), dms'[i], a)

PostedToLead(a) == waiters[a].isLead /\ GrewByOther(leadChat, leadChat', a)

Woken(a) ==
  /\ waiters'[a].st = "returned"
  /\ ~waiters'[a].timedOut
  /\ ~waiters'[a].dissolved

\* C5: a step in which another agent posts to the group chat of an agent
\* with a pending wait, sends it a DM, or posts on the lead channel while
\* the waiter is a lead, makes that wait return with timed_out = false and
\* the unread count of that channel positive; and a wait is never pending
\* while something is unread for it, so a post made before the wait started
\* is not lost either.
C5_WaitWakesOnPost ==
  /\ [](\A a \in Agents :
          Pending(a) => ~HasWork(WaitCounts(a, waiters[a].team, waiters[a].isLead,
                                            teamChats, dms, leadChat)))
  /\ [][\A a \in Agents :
          Pending(a) =>
            /\ PostedToGroup(a) => (Woken(a) /\ waiters'[a].groupChat > 0)
            /\ PostedToDm(a) => (Woken(a) /\ waiters'[a].dms > 0)
            /\ PostedToLead(a) => (Woken(a) /\ waiters'[a].leadChat > 0)]_vars

\* Two waits that blocked have been woken by posts of other agents: one by
\* a group message and one by a DM.
C5_Witness ==
  \E a, b \in Agents :
    /\ \A w \in {a, b} :
         /\ waiters[w].st = "returned" /\ waiters[w].blocked
         /\ ~waiters[w].timedOut /\ ~waiters[w].dissolved
    /\ waiters[a].groupChat > 0
    /\ waiters[b].dms > 0 /\ waiters[b].groupChat = 0

\* C6: a step that dissolves, on the bus, the team an agent with a pending
\* wait is pinned to makes that wait return with dissolved = true and
\* timed_out = false.
C6_WaitReturnsOnDissolve ==
  [][\A t \in Teams :
       (dissolveTeam(t) \/ dissolveTeamWithAgents(t, Members(t))) =>
          \A a \in Agents :
            (Pending(a) /\ waiters[a].team = t) =>
               /\ waiters'[a].st = "returned"
               /\ waiters'[a].dissolved
               /\ ~waiters'[a].timedOut]_vars

\* A wait that blocked has returned because its team was dissolved.
C6_Witness ==
  \E a \in Agents :
    /\ waiters[a].st = "returned" /\ waiters[a].blocked
    /\ waiters[a].dissolved /\ ~waiters[a].timedOut
    /\ waiters[a].team \notin DOMAIN teamChats

(***************************************************************************)
(* Claims about the mission engine (checked under SpecMission)             *)
(***************************************************************************)
Terminal(p) == p \in {"completed", "error"}

LastPassed(log) == log # <<>> /\ log[Len(log)].passed

\* the edges a mission may take, with the condition each is taken under,
\* read on the record as the step leaves it
AllowedEdge(p, q, m) ==
  \/ p = "executing" /\ q = "verifying" /\ m.verifyCommand
  \/ p = "executing" /\ q = "reviewing" /\ ~m.verifyCommand
  \/ p = "verifying" /\ q = "reviewing"
       /\ (LastPassed(m.verificationLog) \/ Len(m.verificationLog) > m.maxVerifyRetries)
  \/ p = "verifying" /\ q = "fixing"
       /\ m.verificationLog # <<>> /\ ~LastPassed(m.verificationLog)
       /\ Len(m.verificationLog) <= m.maxVerifyRetries
  \/ p = "fixing" /\ q = "verifying"
  \/ p = "reviewing" /\ q = "completed"
  \/ ~Terminal(p) /\ q = "error"

\* C7: the phase of a mission changes only along the edges executing ->
\* verifying (verify command present), executing -> reviewing (none),
\* verifying -> reviewing (attempt passed or retries exhausted), verifying ->
\* fixing (attempt failed with retries left), fixing -> verifying, reviewing
\* -> completed, and any non-terminal phase -> error; a phase that is
\* completed or error never changes.
C7_PhaseEdges ==
  [][(mission.phase # "none" /\ mission'.phase # mission.phase)
       => AllowedEdge(mission.phase, mission'.phase, mission')]_vars

\* A mission went through a fix round and completed, and its record stayed
\* as it was until it was evicted.
C7_Witness ==
  /\ phaseLog = <<"executing", "verifying", "fixing", "verifying", "reviewing", "completed">>
  /\ mission.phase = "completed"
  /\ missions = {}

ResultOf(results, id) == results[FindResult(results, id)]

\* C8: a worker call that fails, in executing or in a fix round, never moves
\* the mission to error; the failure is recorded in the result record of
\* that worker, and the mission goes on to the lead, to verification and to
\* reviewing.
C8_WorkerFailureAbsorbed ==
  /\ [][(\E i \in 1..Len(missionWorkerIds) : workerPromiseSettles(i, FALSE))
          => (mission'.phase = mission.phase /\ run'.pc = run.pc)]_vars
  /\ [][(\E i \in 1..MaxFix : fixResultSettles(i, FALSE))
          => (mission'.phase = mission.phase /\ run'.pc = run.pc)]_vars
  /\ [][workersDone =>
          /\ mission'.phase = "executing" /\ run'.pc = "awaitLead"
          /\ \A i \in 1..Len(missionWorkerIds) :
               run.workerPromises[i] = "err" =>
                 ResultOf(mission'.workerResults, missionWorkerIds[i]).status = "error"]_vars
  /\ [][fixRoundDone =>
          /\ mission'.phase = "verifying" /\ run'.pc = "verify"
          /\ \A i \in 1..Len(run.fixResults) :
               run.fixResults[i] = "err" =>
                 ResultOf(mission'.workerResults, run.fixAssignments[i]).status = "error"]_vars
  /\ [](mission.phase = "error" => mission.error \in {"lead call failed", "TypeError"})

\* C9: when the call of the lead fails during reviewing, the mission ends in
\* phase error with the message recorded, and the worker results and the
\* verification log are what they were before the failure.
C9_LeadFailureKeepsResults ==
  [][(mission.phase = "reviewing" /\ compilationSettles(FALSE))
       => /\ mission'.phase = "error"
          /\ mission'.error # ""
          /\ mission'.workerResults = mission.workerResults
          /\ mission'.verificationLog = mission.verificationLog
          /\ run'.pc = "done"]_vars

\* A mission ended in error from reviewing and holds the results of a failed
\* and of a successful worker and a verification log of two attempts.
C9_Witness ==
  /\ mission.phase = "error" /\ mission.error = "lead call failed"
  /\ Len(phaseLog) >= 2 /\ phaseLog[Len(phaseLog) - 1] = "reviewing"
  /\ Len(mission.verificationLog) = 2
  /\ \E i, j \in 1..Len(mission.workerResults) :
       /\ mission.workerResults[i].status = "error"
       /\ mission.workerResults[j].status = "success"

Visited(p) == \E i \in 1..Len(phaseLog) : phaseLog[i] = p

\* C10: verification stops at the first passing attempt: no entry of the
\* verification log follows an entry with passed = true, and a mission whose
\* first attempt passes has exactly one entry and never enters fixing.
C10_VerifyStopsAtFirstPass ==
  /\ \A i \in 1..(Len(mission.verificationLog) - 1) : ~mission.verificationLog[i].passed
  /\ (mission.verificationLog # <<>> /\ mission.verificationLog[1].passed)
       => /\ mission.verificationLog = <<[attempt |-> 1, passed |-> TRUE]>>
          /\ ~Visited("fixing")

\* A mission that allows retries completed after its first attempt passed.
C10_Witness ==
  /\ mission.phase = "completed"
  /\ mission.maxVerifyRetries > 0
  /\ mission.verificationLog = <<[attempt |-> 1, passed |-> TRUE]>>

\* the number of times the mission entered phase p
RECURSIVE CountPhase(_, _)
CountPhase(p, n) ==
  IF n = 0 THEN 0 ELSE CountPhase(p, n - 1) + (IF phaseLog[n] = p THEN 1 ELSE 0)

AllAttemptsFailed ==
  /\ mission.verifyCommand
  /\ \A i \in 1..Len(mission.verificationLog) : ~mission.verificationLog[i].passed

LeadCallsSucceeded == run.leadPromise = "ok" /\ mission.error # "lead call failed"

\* C11: a mission that has ended, whose verification attempts all failed and
\* whose lead calls all succeeded, has exactly maxVerifyRetries + 1 entries in
\* its verification log, ran exactly maxVerifyRetries fix rounds and is in
\* phase completed.
C11_RetriesExhausted ==
  (run.pc = "done" /\ AllAttemptsFailed /\ LeadCallsSucceeded)
    => /\ Len(mission.verificationLog) = mission.maxVerifyRetries + 1
       /\ CountPhase("fixing", Len(phaseLog)) = mission.maxVerifyRetries
       /\ mission.phase = "completed"

\* C12: a step that takes a mission into completed or error captures the
\* comms snapshot from the channels as they are at that moment and removes
\* the team from the team manager and from the bus; no mission is in a
\* terminal phase while its team exists in either.
C12_TerminalSnapshotAndDissolve ==
  /\ [](Terminal(mission.phase) =>
          /\ mission.comms # <<>>
          /\ MissionTeam \notin teams
          /\ MissionTeam \notin DOMAIN teamChats
          /\ MissionTeam \notin DOMAIN sharedArtifacts)
  /\ [][(~Terminal(mission.phase) /\ Terminal(mission'.phase))
          => mission'.comms = Snapshot(MissionAgents)]_vars

\* A mission has ended with a group message in its snapshot while the
\* channel of its team is gone from the bus.
C12_Witness ==
  /\ Terminal(mission.phase)
  /\ mission.comms # <<>>
  /\ mission.comms.groupChat # <<>>
  /\ MissionTeam \notin teams
  /\ MissionTeam \notin DOMAIN teamChats

\* C13: from the entry into a terminal phase until the retention period has
\* elapsed, get_mission_comms succeeds and returns the snapshot captured at
\* that entry, unchanged by anything that happens meanwhile; the record is
\* deleted only when the period has elapsed, no time passes on a due timer
\* before it fires, and from then on get_mission_comms fails with not_found.
C13_CommsRetained ==
  /\ []((run.pc = "done" /\ elapsed < RetentionMinutes) =>
          /\ 1 \in missions
          /\ get_mission_comms(1).kind = "ok"
          /\ get_mission_comms(1).comms = FormatComms(mission.comms))
  /\ []((run.pc = "done" /\ 1 \notin missions) =>
          /\ elapsed >= RetentionMinutes
          /\ ~evictionTimer
          /\ get_mission_comms(1) = toolError("not_found"))
  /\ [][(~Terminal(mission.phase) /\ Terminal(mission'.phase))
          => get_mission_comms(1)'.comms = FormatComms(Snapshot(MissionAgents))]_vars
  /\ [][(run.pc = "done" /\ 1 \in missions /\ 1 \in missions')
          => get_mission_comms(1)' = get_mission_comms(1)]_vars
  /\ [][(run.pc = "done" /\ elapsed >= RetentionMinutes /\ elapsed' > elapsed)
          => 1 \notin missions]_vars

\* A terminal mission whose snapshot holds a group message is still served
\* inside the retention period after an await_mission call returned for it.
C13_Witness ==
  /\ run.pc = "done"
  /\ elapsed > 0
  /\ elapsed < RetentionMinutes
  /\ awaitCall.st = "returned"
  /\ get_mission_comms(1).kind = "ok"
  /\ get_mission_comms(1).comms.groupChat # <<>>

\* The retention period is over and get_mission_comms fails with not_found.
C13_WitnessEvicted ==
  /\ run.pc = "done"
  /\ elapsed >= RetentionMinutes
  /\ get_mission_comms(1) = toolError("not_found")

\* C14 as stated: when await_mission has returned for a terminal mission it
\* has returned the final report and error and the record is gone, so
\* mission_status and get_mission_comms for that id fail with not_found.
C14_AwaitDeletesRecord ==
  awaitCall.st = "returned" =>
    /\ awaitCall.finalReport = mission.finalReport
    /\ awaitCall.error = mission.error
    /\ awaitCall.id \notin missions
    /\ mission_status(awaitCall.id) = toolError("not_found")
    /\ get_mission_comms(awaitCall.id) = toolError("not_found")

\* C14 amended: await_mission returns only for a mission in a terminal phase
\* and returns its phase, final report and error; the return leaves the
\* record in place, so mission_status and get_mission_comms for that id keep
\* succeeding until the eviction timer deletes the record, and fail with
\* not_found from then on.
C14_AwaitKeepsRecord ==
  /\ [][(awaitCall.st # "returned" /\ awaitCall'.st = "returned") =>
          /\ Terminal(mission.phase)
          /\ awaitCall'.phase = mission.phase
          /\ awaitCall'.finalReport = mission.finalReport
          /\ awaitCall'.error = mission.error
          /\ awaitCall'.id \in missions'
          /\ missions' = missions
          /\ mission' = mission]_vars
  /\ [](awaitCall.st = "returned" =>
          /\ awaitCall.finalReport = mission.finalReport
          /\ awaitCall.error = mission.error
          /\ IF evictionTimer
               THEN /\ mission_status(awaitCall.id).kind = "ok"
                    /\ mission_status(awaitCall.id).finalReport = awaitCall.finalReport
                    /\ get_mission_comms(awaitCall.id).kind = "ok"
               ELSE /\ elapsed >= RetentionMinutes
                    /\ mission_status(awaitCall.id) = toolError("not_found")
                    /\ get_mission_comms(awaitCall.id) = toolError("not_found"))

\* await_mission has returned the final report of a completed mission
\* and mission_status and get_mission_comms still find the record.
C14_Witness ==
  /\ awaitCall.st = "returned"
  /\ awaitCall.phase = "completed"
  /\ awaitCall.finalReport # ""
  /\ mission_status(awaitCall.id).kind = "ok"
  /\ get_mission_comms(awaitCall.id).kind = "ok"

(***************************************************************************)
(* Claims about the task and agent tools (checked under SpecTasks and      *)
(* SpecOperator)                                                           *)
(***************************************************************************)
\* the tasks of ts that are pending, list taskId as a prerequisite and have
\* every prerequisite completed
UnblockedBy(ts, taskId) ==
  {c \in 1..Len(ts) :
     /\ ts[c].status = "pending"
     /\ taskId \in ts[c].dependencies
     /\ \A d \in ts[c].dependencies : d \in 1..Len(ts) /\ ts[d].status = "completed"}

C15_WitnessFanOut == \E t \in TaskIds : Len(completeTask(tasks, t)) = 2

\* the auto-start call c rejects in this step
AutoStartFails(c) ==
  /\ c \in 1..Len(callers)
  /\ callers[c].tool \in {"assign_task", "complete_task"}
  /\ ~Settled(calls[c].st)
  /\ calls'[c].st = "err"

StatusRank(status) ==
  CASE status = "pending" -> 1 [] status = "in-progress" -> 2 [] status = "completed" -> 3

\* C16 as stated: in every step the status of every task stays or moves
\* forward along pending, in-progress, completed, except that a task in
\* progress goes back to pending in the step in which an auto-start call for
\* it fails.
C16_StatusNeverRegresses ==
  [][\A t \in TaskIds :
       \/ StatusRank(tasks'[t].status) >= StatusRank(tasks[t].status)
       \/ /\ tasks[t].status = "in-progress"
          /\ tasks'[t].status = "pending"
          /\ \E c \in CallIds : AutoStartFails(c) /\ callers[c].task = t]_vars

\* C17: in the step in which an auto-start call fails, its task is pending
\* afterwards; the assign_task call that awaited it returns a success
\* response reporting the task as pending, and the complete_task call that
\* issued it in the background has returned success already and keeps it.
C17_AutoStartFailureReverts ==
  [][\A c \in CallIds :
       AutoStartFails(c) =>
         /\ tasks'[callers[c].task].status = "pending"
         /\ callers'[c].returned = "ok"
         /\ callers[c].tool = "assign_task" =>
              (callers[c].returned = "no" /\ callers'[c].status = "pending")
         /\ callers[c].tool = "complete_task" => callers[c].returned = "ok"]_vars

\* An awaited auto-start and a background auto-start have both failed and
\* both tasks are pending again.
C17_Witness ==
  /\ \E c \in 1..Len(callers) :
       /\ callers[c].tool = "assign_task"
       /\ calls[c].st = "err"
       /\ callers[c].returned = "ok"
       /\ callers[c].status = "pending"
  /\ \E c \in 1..Len(callers) :
       /\ callers[c].tool = "complete_task"
       /\ calls[c].st = "err"
       /\ callers[c].returned = "ok"
       /\ tasks[callers[c].task].status = "pending"

\* assign_task has created a task in this step
TaskCreated == Len(tasks') = Len(tasks) + 1
NewTask == tasks'[Len(tasks')]
PrerequisitesCompleted == \A d \in NewTask.dependencies : depCompleted(tasks, d)
TaskStarted ==
  /\ NewTask.status = "in-progress"
  /\ Len(calls') = Len(calls) + 1
  /\ calls'[Len(calls')].agent = NewTask.assignedTo
  /\ SubSeq(calls', 1, Len(calls)) = calls
TaskLeftPending == NewTask.status = "pending" /\ calls' = calls

\* C18 as stated: assign_task starts the new task and issues an adapter call
\* exactly when all its prerequisites are completed and the assignee is
\* idle; in every other case the task stays pending and no call is made.
C18_StartsIffIdle ==
  [][TaskCreated =>
       IF PrerequisitesCompleted /\ agentStatus[NewTask.assignedTo] = "idle"
         THEN TaskStarted ELSE TaskLeftPending]_vars

\* C18 amended: assign_task starts the new task and issues an adapter call
\* exactly when all its prerequisites are completed and the assignee is not
\* working (its status is idle or error); in every other case the task stays
\* pending and no call is made.
C18_StartsIffNotWorking ==
  [][TaskCreated =>
       IF PrerequisitesCompleted /\ agentStatus[NewTask.assignedTo] # "working"
         THEN TaskStarted ELSE TaskLeftPending]_vars

\* assign_task has started a task on an agent whose status is error, and the
\* call for it is queued.
C18_Witness ==
  \E c \in 1..Len(callers) :
    /\ callers[c].tool = "assign_task"
    /\ calls[c].st = "queued"
    /\ agentStatus[calls[c].agent] = "error"
    /\ tasks[callers[c].task].status = "in-progress"

\* C19: remove_agent on an agent of the team answers busy exactly when the
\* agent is working or owns at least one task; otherwise it removes the
\* agent from the team.
C19_RemoveRefusal ==
  [][\A a \in AdapterAgents :
       (remove_agent(a) /\ a \in teamAgents) =>
         /\ lastResult'.tool = "remove_agent"
         /\ (lastResult'.kind = "busy")
              <=> (agentStatus[a] = "working" \/ Cardinality(agentTasks(a)) >= 1)
         /\ lastResult'.kind # "busy" =>
              (lastResult'.kind = "removed" /\ teamAgents' = teamAgents \ {a})
         /\ lastResult'.kind = "busy" => teamAgents' = teamAgents]_vars

\* remove_agent has been refused for an idle agent because it owns a task.
C19_Witness ==
  /\ lastResult.tool = "remove_agent"
  /\ lastResult.kind = "busy"
  /\ lastResult.agentId \in teamAgents
  /\ agentStatus[lastResult.agentId] = "idle"
  /\ agentTasks(lastResult.agentId) # {}

\* An agent without tasks that is not working has been removed.
C19_WitnessRemoved ==
  /\ lastResult.tool = "remove_agent"
  /\ lastResult.kind = "removed"
  /\ lastResult.agentId \notin teamAgents

\* C20: a send_message call for an agent of the team whose status is working
\* answers busy and issues no adapter call; for an agent whose status is not
\* working it issues exactly one adapter call, for that agent.  The calls
\* interleave with each other and with the steps of the adapter.
C20_SendMessageBusy ==
  [][\A a \in AdapterAgents :
       (send_message(a) /\ a \in teamAgents) =>
         IF agentStatus[a] = "working"
           THEN /\ lastResult' = toolResponse("send_message", "busy", a)
                /\ calls' = calls
                /\ downstream' = downstream
           ELSE /\ Len(calls') = Len(calls) + 1
                /\ calls'[Len(calls')].agent = a
                /\ SubSeq(calls', 1, Len(calls)) = calls
                /\ lastResult' = lastResult]_vars

\* Two send_message calls for one agent are outstanding together, and a
\* third call for the agent, now working, has been answered busy.
C20_Witness ==
  /\ \E c1, c2 \in 1..Len(callers) :
       /\ c1 < c2
       /\ callers[c1].tool = "send_message"
       /\ callers[c2].tool = "send_message"
       /\ calls[c1].agent = calls[c2].agent
       /\ calls[c1].st = "inflight"
       /\ calls[c2].st = "queued"
       /\ agentStatus[calls[c1].agent] = "working"
       /\ lastResult = toolResponse("send_message", "busy", calls[c1].agent)

(***************************************************************************)
(* Steering: the steer_team tool                                           *)
(***************************************************************************)
\* the author of the announcement in the group chat: "orchestrator"
Orchestrator == 0

SteerTeam == TeamOf(CHOOSE a \in AdapterAgents : TRUE)

NoSteer ==
  [st |-> "idle", targets |-> <<>>,
   aborted |-> <<>>, first |-> NoCall, steered |-> <<>>, failed |-> <<>>]

\* Array.from(team.agents.values()): the agents in the order of creation
RECURSIVE agentList(_)
agentList(S) ==
  IF S = {} THEN <<>>
  ELSE LET a == CHOOSE x \in S : \A y \in S : x <= y
       IN <<a>> \o agentList(S \ {a})

\* the targets of steer_team: the given ids that name an agent of the team,
\* in the given order, or every agent of the team
steerTargets(given, agentIds) ==
  IF given THEN SelectSeq(agentIds, LAMBDA id : id \in teamAgents)
           ELSE agentList(teamAgents)

\* abortTeam(agentIds): abortAgent for each id in turn; the ids whose
\* controller was registered are reported
RECURSIVE abortTeam(_, _, _, _)
abortTeam(cs, controllers, agentIds, aborted) ==
  IF agentIds = <<>>
    THEN [calls |-> cs, activeControllers |-> controllers, aborted |-> aborted]
  ELSE LET id == Head(agentIds)
       IN IF controllers[id] # NoCall
            THEN abortTeam([cs EXCEPT ![controllers[id]].aborted = TRUE],
                           [controllers EXCEPT ![id] = NoCall],
                           Tail(agentIds), Append(aborted, id))
            ELSE abortTeam(cs, controllers, Tail(agentIds), aborted)

\* steer_team(teamId, directive, agentIds?) up to the await of
\* Promise.allSettled: the targets are cancelled, the announcement is posted
\* and the redirect prompt is sent to every target
steer_team(given, agentIds) ==
  LET targets == steerTargets(given, agentIds)
      ab == abortTeam(calls, activeControllers, targets, <<>>)
      sent == sendToAgents(ab.calls, agentLocks, targets)
  IN /\ steer.st # "awaiting"
     /\ IF targets = <<>>
          THEN /\ steer' = [NoSteer EXCEPT !.st = "returned"]
               /\ UNCHANGED <<adapterVars, busVars, waitVars, callers>>
          ELSE /\ Len(calls) + Len(targets) <= MaxCalls
               /\ calls' = sent.calls
               /\ agentLocks' = sent.agentLocks
               /\ activeControllers' = ab.activeControllers
               /\ groupChatPost(SteerTeam, Orchestrator)
               /\ callers' = callers \o [i \in 1..Len(targets) |->
                                           [tool |-> "steer_team", task |-> NoTask,
                                            returned |-> "no", status |-> ""]]
               /\ steer' = [NoSteer EXCEPT !.st = "awaiting", !.targets = targets,
                                           !.aborted = ab.aborted, !.first = Len(calls)]
               /\ UNCHANGED <<downstream, connected, reconnectPromise, agentStatus,
                              agentTokens>>
     /\ UNCHANGED <<teamAgents, tasks, lastResult>>

\* the outcomes of Promise.allSettled, one per target
steerResults(f) ==
  [i \in 1..Len(f.targets) |-> [agentId |-> f.targets[i], status |-> calls[f.first + i].st]]

\* results.forEach: a fulfilled outcome is reported as steered, a rejected
\* one as failed
steeredOf(results) == SelectSeq(results, LAMBDA r : r.status = "ok")
failedNone(results) == <<>>
failedOf(results) == SelectSeq(results, LAMBDA r : r.status # "ok")

AgentIdsOf(results) == [i \in 1..Len(results) |-> results[i].agentId]

\* Promise.allSettled resolves once every call has settled, and steer_team
\* returns {aborted, steered, failed}
steerTeamReturns ==
  /\ steer.st = "awaiting"
  /\ \A i \in 1..Len(steer.targets) : Settled(calls[steer.first + i].st)
  /\ steer' = [steer EXCEPT !.st = "returned",
                            !.steered = AgentIdsOf(steeredOf(steerResults(steer))),
                            !.failed = AgentIdsOf(failedOf(steerResults(steer)))]

NoDispatch == [st |-> "idle", first |-> NoCall, timedOut |-> <<>>, report |-> <<>>]

(***************************************************************************)
(* The counting relay of tests/wait.test.ts: a lead and a worker of one    *)
(* team take turns posting 1..MAX to the group chat.  Each agentTurn loop  *)
(* is a sequence of awaited handler calls; a step of the model is one      *)
(* handler call or the continuation behind it.                             *)
(***************************************************************************)
RelayMax == 10

RelayLead == 1
RelayWorker == 2
RelayAgents == {RelayLead, RelayWorker}
RelayTeam == TeamOf(RelayLead)

oddNumbers == SelectSeq([i \in 1..RelayMax |-> i], LAMBDA n : n % 2 = 1)
evenNumbers == SelectSeq([i \in 1..RelayMax |-> i], LAMBDA n : n % 2 = 0)
myNumbers(a) == IF a = RelayLead THEN oddNumbers ELSE evenNumbers

\* if (n > 1): every number but the first is posted after a wait and a read
needsWaitAlways(n) == TRUE
needsWait(n) == n > 1

\* pc: the position of each loop; idx: the index of n in myNumbers; texts:
\* the text of each posted message by message id; log: the test's log
NoRelay == [pc |-> [a \in RelayAgents |-> "turn"], idx |-> [a \in RelayAgents |-> 1],
            texts |-> <<>>, log |-> <<>>]

RelayN(a) == myNumbers(a)[relay.idx[a]]

RelayChat == getOrCreateChannel(teamChats, RelayTeam).messages

\* no loop can take a step: each is over or blocked in a pending wait
RelayQuiescent ==
  \A b \in RelayAgents :
    \/ relay.pc[b] \in {"done", "failed"}
    \/ relay.pc[b] = "waiting" /\ waiters[b].st = "pending"

\* wait_for_messages({ timeoutMs: 5000 }) is called
relayWaitCall(a) ==
  /\ relay.pc[a] = "turn"
  /\ needsWait(RelayN(a))
  /\ wait(RelayTeam, a, a \in Leads)
  /\ relay' = [relay EXCEPT !.pc[a] = "waiting"]

\* wait_for_messages returns, woken by a post or by its timer, and
\* timedOut is asserted false.  The steps of the loops are immediate next
\* to the 5 s of the timer, so the timer elapses only when no loop can move.
relayWaitReturns(a) ==
  /\ relay.pc[a] = "waiting"
  /\ \/ waiters[a].st = "returned" /\ UNCHANGED <<busVars, waitVars>>
     \/ RelayQuiescent /\ waitTimeout(a)
  /\ relay' = [relay EXCEPT !.pc[a] = IF waiters'[a].timedOut THEN "failed" ELSE "read"]

\* group_chat_read, and the last message read is asserted to be n - 1
relayRead(a) ==
  LET out == readMessagesOut(getOrCreateChannel(teamChats, RelayTeam), a)
  IN /\ relay.pc[a] = "read"
     /\ groupChatRead(RelayTeam, a)
     /\ relay' = [relay EXCEPT !.pc[a] =
                    IF out # <<>> /\ relay.texts[out[Len(out)].id] = RelayN(a) - 1
                      THEN "post" ELSE "failed"]

\* group_chat_post({ message: String(n) })
relayPost(a) ==
  /\ \/ relay.pc[a] = "post"
     \/ relay.pc[a] = "turn" /\ ~needsWait(RelayN(a))
  /\ groupChatAppend(RelayTeam, a)
  /\ relay' = [relay EXCEPT !.pc[a] = "push",
                            !.texts = (nextMsgId + 1 :> RelayN(a)) @@ @]

\* log.push({ n, from }) and the next iteration of the loop
relayPush(a) ==
  /\ relay.pc[a] = "push"
  /\ relay' = [relay EXCEPT
       !.log = Append(@, [n |-> RelayN(a), from |-> a]),
       !.idx[a] = IF @ < Len(myNumbers(a)) THEN @ + 1 ELSE @,
       !.pc[a] = IF relay.idx[a] < Len(myNumbers(a)) THEN "turn" ELSE "done"]
  /\ UNCHANGED <<busVars, waitVars>>

(***************************************************************************)
(* Shutdown: the operation tracker of the adapter (trackOp, disconnect)    *)
(* and shutdown() of main.  A tracked operation is the promise of a        *)
(* mission run or of a background auto-start; ops are numbered in the      *)
(* order in which they are registered.                                     *)
(***************************************************************************)
\* pendingOps: the registered operations that have not settled; ops: how many
\* were registered so far; st: "up", "awaiting" (disconnect is suspended on
\* Promise.allSettled) or "exited"; awaited: the promises handed to
\* Promise.allSettled; before: the value of ops when shutdown() was called
NoTracker == [pendingOps |-> {}, ops |-> 0, st |-> "up", awaited |-> {}, before |-> 0]

\* codex.trackOp(op) in launch_mission and in the auto-start of complete_task
trackOp ==
  /\ tracker.st # "exited"
  /\ tracker.ops < MaxOps
  /\ tracker' = [tracker EXCEPT !.ops = @ + 1, !.pendingOps = @ \cup {tracker.ops + 1}]
  /\ UNCHANGED adapterVars

\* op.finally(() => this.pendingOps.delete(op))
opSettles(o) ==
  /\ tracker.st # "exited"
  /\ o \in tracker.pendingOps
  /\ tracker' = [tracker EXCEPT !.pendingOps = @ \ {o}]
  /\ UNCHANGED adapterVars

\* the promises disconnect() waits for: Promise.allSettled(this.pendingOps)
\* iterates the set once, when it is called
allSettledOfNothing == {}
allSettledOf == tracker.pendingOps

\* await this.client.close(); this.connected = false; process.exit(0)
closeAndExit ==
  /\ connected' = FALSE
  /\ UNCHANGED <<calls, agentLocks, downstream, reconnectPromise, activeControllers,
                 agentStatus, agentTokens>>

\* shutdown() on SIGINT, SIGTERM or the end of stdin: disconnect() up to its
\* first await, or to the end when nothing is pending
shutdown ==
  /\ tracker.st = "up"
  /\ IF allSettledOf # {}
       THEN /\ tracker' = [tracker EXCEPT !.st = "awaiting", !.awaited = allSettledOf,
                                           !.before = tracker.ops]
            /\ UNCHANGED adapterVars
       ELSE /\ tracker' = [tracker EXCEPT !.st = "exited", !.before = tracker.ops]
            /\ closeAndExit

\* Promise.allSettled resolves: disconnect() closes the session and
\* shutdown() exits the process
disconnectResumes ==
  /\ tracker.st = "awaiting"
  /\ tracker.awaited \cap tracker.pendingOps = {}
  /\ tracker' = [tracker EXCEPT !.st = "exited"]
  /\ closeAndExit

ToolInit ==
  /\ steer = NoSteer
  /\ dispatch = NoDispatch
  /\ relay = NoRelay
  /\ tracker = NoTracker

(***************************************************************************)
(* Claims about steering (checked under SpecSteer)                         *)
(***************************************************************************)
\* the ids given to steer_team: a duplicate-free list that may name an agent
\* outside the team
SteerIdLists ==
  {<<>>} \cup {<<a>> : a \in Agents}
         \cup {p \in {<<a, b>> : a, b \in Agents} : p[1] # p[2]}

\* the target set of a steer_team call: the given ids restricted to the
\* members of the team, or all members
TargetSet(given, agentIds, members) ==
  IF given THEN Range(agentIds) \cap members ELSE members

createTeam(teamId) == teams' = teams \cup {teamId}

\* create_team: the operator creates a team that does not exist yet
create_team(teamId) ==
  /\ teamId \notin teams
  /\ createTeam(teamId)
  /\ UNCHANGED <<missions, mission, run, evictionTimer, elapsed, awaitCall, phaseLog>>

\* dissolve_team: "Team not found" for an id that is not in the map, else
\* messages.dissolveTeamWithAgents(teamId, agentIds); state.dissolveTeam(teamId)
dissolve_team(teamId) ==
  /\ IF teamId \notin teams
       THEN UNCHANGED <<busVars, waitVars, teams>>
       ELSE /\ dissolveTeamWithAgents(teamId, Members(teamId))
            /\ stateDissolveTeam(teamId)
  /\ UNCHANGED <<missions, mission, run, evictionTimer, elapsed, awaitCall, phaseLog>>

\* findAgentContext(state, agentId): the agent belongs to a team of the map
findAgentContextAnyTeam(agentId) == agentId \in Agents
findAgentContext(agentId) == agentId \in Agents /\ TeamOf(agentId) \in teams

\* ctx.agent.isLead
isLead(agentId) == agentId \in Leads

\* validateAgentToken(agentId, token)
tokenOf(agentId) == IF agentId \in DOMAIN agentTokens THEN agentTokens[agentId] ELSE NoToken
validateAnyToken(agentId, token) == TRUE
validateAgentToken(agentId, token) == tokenOf(agentId) = token

\* the tokens a handshake may present: none, or one the generator can draw
Tokens == {NoToken} \cup AdapterAgents

NoCommsResult == "none"

\* app.post("/mcp") for an initialize request without a session id, with the
\* CodexClientManager that main() passes to startCommsServer: agentId and
\* token are the `agent` and `token` parameters of the URL (NoAgent, NoToken
\* when the parameter is missing)
handshake(agentId, token) ==
  /\ IF agentId = NoAgent \/ token = NoToken
       THEN /\ commsResult' = "401"
            /\ UNCHANGED sessions
     ELSE IF ~validateAgentToken(agentId, token)
       THEN /\ commsResult' = "403"
            /\ UNCHANGED sessions
     ELSE /\ sessions' = Append(sessions, agentId)
          /\ commsResult' = "session"

\* enforceIdentity(claimedId) of the session bound to boundAgentId: TRUE when
\* it returns the mismatch error
enforceIdentitySkipped(boundAgentId, claimedId) == FALSE
enforceIdentity(boundAgentId, claimedId) ==
  boundAgentId # NoAgent /\ claimedId # boundAgentId

\* a handler returns an error before it reaches the message system
commsError(status) ==
  /\ commsResult' = status
  /\ UNCHANGED <<busVars, waitVars>>

\* the checks every tool makes first: identity, then findAgentContext
commsRefusal(s, myAgentId) ==
  IF enforceIdentity(sessions[s], myAgentId) THEN "mismatch"
  ELSE IF ~findAgentContext(myAgentId) THEN "unknown"
  ELSE "none"

\* group_chat_post of session s
group_chat_post(s, myAgentId) ==
  /\ s \in DOMAIN sessions
  /\ IF commsRefusal(s, myAgentId) # "none" THEN commsError(commsRefusal(s, myAgentId))
     ELSE /\ groupChatPost(TeamOf(myAgentId), myAgentId)
          /\ commsResult' = "ok"
  /\ UNCHANGED sessions

\* group_chat_read of session s
group_chat_read(s, myAgentId) ==
  /\ s \in DOMAIN sessions
  /\ IF commsRefusal(s, myAgentId) # "none" THEN commsError(commsRefusal(s, myAgentId))
     ELSE /\ groupChatRead(TeamOf(myAgentId), myAgentId)
          /\ commsResult' = "ok"
  /\ UNCHANGED sessions

\* the authorization of dm_send: sameTeam || bothLeads
dmAuthorizedAny(myAgentId, toAgentId) == TRUE
dmAuthorized(myAgentId, toAgentId) ==
  LET sameTeam == TeamOf(myAgentId) = TeamOf(toAgentId)
      bothLeads == isLead(myAgentId) /\ isLead(toAgentId)
  IN sameTeam \/ bothLeads

\* dm_send of session s
dm_send(s, myAgentId, toAgentId) ==
  /\ s \in DOMAIN sessions
  /\ IF commsRefusal(s, myAgentId) # "none" THEN commsError(commsRefusal(s, myAgentId))
     ELSE IF ~findAgentContext(toAgentId) THEN commsError("unknown target")
     ELSE IF ~dmAuthorized(myAgentId, toAgentId) THEN commsError("forbidden")
     ELSE /\ dmSend(myAgentId, toAgentId, now)
          /\ commsResult' = "ok"
  /\ UNCHANGED sessions

\* dm_read of session s
dm_read(s, myAgentId, fromAgentId) ==
  /\ s \in DOMAIN sessions
  /\ IF commsRefusal(s, myAgentId) # "none" THEN commsError(commsRefusal(s, myAgentId))
     ELSE /\ dmRead(myAgentId, fromAgentId)
          /\ commsResult' = "ok"
  /\ UNCHANGED sessions

\* share of session s
share(s, myAgentId) ==
  /\ s \in DOMAIN sessions
  /\ IF commsRefusal(s, myAgentId) # "none" THEN commsError(commsRefusal(s, myAgentId))
     ELSE /\ shareArtifact(TeamOf(myAgentId), myAgentId)
          /\ commsResult' = "ok"
  /\ UNCHANGED sessions

\* the lead_chat tools check the lead flag after the context
leadOnlySkipped(myAgentId) == FALSE
leadOnly(myAgentId) == ~isLead(myAgentId)

leadRefusal(s, myAgentId) ==
  IF commsRefusal(s, myAgentId) # "none" THEN commsRefusal(s, myAgentId)
  ELSE IF leadOnly(myAgentId) THEN "not lead"
  ELSE "none"

\* lead_chat_post of session s
lead_chat_post(s, myAgentId) ==
  /\ s \in DOMAIN sessions
  /\ IF leadRefusal(s, myAgentId) # "none" THEN commsError(leadRefusal(s, myAgentId))
     ELSE /\ leadChatPost(myAgentId)
          /\ commsResult' = "ok"
  /\ UNCHANGED sessions

\* lead_chat_read of session s
lead_chat_read(s, myAgentId) ==
  /\ s \in DOMAIN sessions
  /\ IF leadRefusal(s, myAgentId) # "none" THEN commsError(leadRefusal(s, myAgentId))
     ELSE /\ leadChatRead(myAgentId)
          /\ commsResult' = "ok"
  /\ UNCHANGED sessions

\* lead_chat_peek of session s
lead_chat_peek(s, myAgentId) ==
  /\ s \in DOMAIN sessions
  /\ IF leadRefusal(s, myAgentId) # "none" THEN commsError(leadRefusal(s, myAgentId))
     ELSE /\ leadChatPeek(myAgentId)
          /\ commsResult' = "ok"
  /\ UNCHANGED sessions

CommsInit ==
  /\ sessions = <<>>
  /\ commsResult = NoCommsResult

(***************************************************************************)
(* Dispatch: the dispatch_team tool                                        *)
(***************************************************************************)
\* the team dispatch_team creates, and its agents in the order of the configs
DispatchTeam == TeamOf(CHOOSE a \in AdapterAgents : TRUE)
dispatchAgentList == agentList(AdapterAgents)

\* withTimeout(signal => codex.sendToAgent(agent, task, signal), ...) for
\* each agent in turn: every call carries the signal of its timeout
RECURSIVE sendWithTimeout(_, _, _)
sendWithTimeout(cs, locks, agentIds) ==
  IF agentIds = <<>> THEN [calls |-> cs, agentLocks |-> locks]
  ELSE sendWithTimeout(Append(cs, [agent |-> Head(agentIds), prev |-> locks[Head(agentIds)],
                                   st |-> "queued", sig |-> "live", aborted |-> FALSE]),
                       [locks EXCEPT ![Head(agentIds)] = Len(cs) + 1],
                       Tail(agentIds))

\* dispatch_team(name, workDir, agents) up to the await of Promise.allSettled
dispatch_team ==
  LET sent == sendWithTimeout(calls, agentLocks, dispatchAgentList)
  IN /\ dispatch.st = "idle"
     /\ DispatchTeam \notin teams
     /\ createTeam(DispatchTeam)
     /\ calls' = sent.calls
     /\ agentLocks' = sent.agentLocks
     /\ callers' = callers \o [i \in 1..Len(dispatchAgentList) |->
                                 [tool |-> "dispatch_team", task |-> NoTask,
                                  returned |-> "no", status |-> ""]]
     /\ dispatch' = [st |-> "awaiting", first |-> Len(calls),
                     timedOut |-> [i \in 1..Len(dispatchAgentList) |-> FALSE],
                     report |-> <<>>]
     /\ UNCHANGED <<downstream, connected, reconnectPromise, activeControllers,
                    agentStatus, agentTokens>>
     /\ UNCHANGED <<teamAgents, tasks, lastResult>>
     /\ UNCHANGED <<missions, mission, run, evictionTimer, elapsed, awaitCall, phaseLog>>

\* the timer of withTimeout fires for the i-th agent: the signal aborts and
\* the promise of that agent rejects, whether or not the call has settled
dispatchTimeout(i) ==
  /\ dispatch.st = "awaiting"
  /\ i \in 1..Len(dispatch.timedOut)
  /\ ~dispatch.timedOut[i]
  /\ signalAborts(dispatch.first + i)
  /\ dispatch' = [dispatch EXCEPT !.timedOut[i] = TRUE]

\* the outcome of the i-th promise of Promise.allSettled
dispatchOutcome(i) ==
  IF dispatch.timedOut[i] THEN "error"
  ELSE IF calls[dispatch.first + i].st = "ok" THEN "success"
  ELSE "error"

\* the team manager forgets the team in the finally block
dispatchKeepsTeam(teamId) == UNCHANGED teams
dispatchDissolvesTeam(teamId) == stateDissolveTeam(teamId)

\* Promise.allSettled resolves; the report is built and the finally block
\* dissolves the team on the bus and in the team manager
dispatchReturns ==
  /\ dispatch.st = "awaiting"
  /\ \A i \in 1..Len(dispatch.timedOut) :
       dispatch.timedOut[i] \/ Settled(calls[dispatch.first + i].st)
  /\ dispatch' = [dispatch EXCEPT
                    !.st = "returned",
                    !.report = [i \in 1..Len(dispatch.timedOut) |->
                                  [agentId |-> dispatchAgentList[i],
                                   status |-> dispatchOutcome(i)]]]
  /\ dissolveTeamWithAgents(DispatchTeam, Range(dispatchAgentList))
  /\ dispatchDissolvesTeam(DispatchTeam)
  /\ UNCHANGED <<missions, mission, run, evictionTimer, elapsed, awaitCall, phaseLog>>

(***************************************************************************)
(* Claims about the comms server (checked under SpecComms)                 *)
(***************************************************************************)
\* the messages of every channel and the artifacts of every team
ItemsIn(chats, entries, lead, artifacts) ==
  UNION {Range(chats[t].messages) : t \in DOMAIN chats}
    \cup UNION {Range(entries[i].messages) : i \in 1..Len(entries)}
    \cup Range(lead.messages)
    \cup UNION {Range(artifacts[t]) : t \in DOMAIN artifacts}

\* what a step appends to the channels and the artifact logs
Appended ==
  ItemsIn(teamChats', dms', leadChat', sharedArtifacts')
    \ ItemsIn(teamChats, dms, leadChat, sharedArtifacts)

\* no channel, no cursor and no artifact log changes
ChannelsUnchanged == UNCHANGED <<teamChats, dms, leadChat, sharedArtifacts>>

OnSameTeam(a, b) ==
  findAgentContext(a) /\ findAgentContext(b) /\ TeamOf(a) = TeamOf(b)
BothLeads(a, b) ==
  findAgentContext(a) /\ findAgentContext(b) /\ isLead(a) /\ isLead(b)

CommsRequest(s, a) ==
  \/ group_chat_post(s, a)
  \/ group_chat_read(s, a)
  \/ \E b \in Agents : dm_send(s, a, b)
  \/ \E f \in Agents \cup {NoAgent} : dm_read(s, a, f)
  \/ share(s, a)
  \/ lead_chat_post(s, a)
  \/ lead_chat_read(s, a)
  \/ lead_chat_peek(s, a)

\* C24: every message or artifact appended through a session carries the
\* agent id the session is bound to as its sender, and a request whose
\* claimed agent id differs from the bound id is rejected and changes no
\* channel and no cursor.
C24_SessionIdentity ==
  [][\A s \in DOMAIN sessions, a \in Agents :
       \/ /\ \A m \in Appended : m.from = sessions[s]
          /\ a # sessions[s] => commsResult' = "mismatch" /\ ChannelsUnchanged
       \/ ~CommsRequest(s, a)]_vars

\* a session has appended to a channel and a request claiming another agent
\* id was then rejected
C24_Witness ==
  /\ commsResult = "mismatch"
  /\ ItemsIn(teamChats, dms, leadChat, sharedArtifacts) # {}
  /\ \A m \in ItemsIn(teamChats, dms, leadChat, sharedArtifacts) :
       \E s \in DOMAIN sessions : m.from = sessions[s]

\* a call of one of the three lead_chat tools
LeadRequest(s, a) ==
  \/ lead_chat_post(s, a)
  \/ lead_chat_read(s, a)
  \/ lead_chat_peek(s, a)

\* C25: lead_chat_post, lead_chat_read and lead_chat_peek succeed only for
\* an agent whose lead flag is set; a call by an agent that is not a lead is
\* rejected, appends nothing and leaves every cursor of the lead channel
\* unchanged.
C25_LeadChatLeadsOnly ==
  [][\A s \in DOMAIN sessions, a \in Agents :
       \/ /\ commsResult' = "ok" => isLead(a)
          /\ ~isLead(a) =>
               /\ commsResult' # "ok"
               /\ Appended = {}
               /\ leadChat' = leadChat
       \/ ~LeadRequest(s, a)]_vars

\* the session of a worker called a lead_chat tool and was refused for not
\* being a lead
C25_Witness ==
  /\ commsResult = "not lead"
  /\ \E s \in DOMAIN sessions : ~isLead(sessions[s])

\* C26: a session is created only if the handshake URL carries an agent id
\* and the token minted for that agent id; a handshake without id or token
\* is rejected as unauthenticated (401), one whose token does not match as
\* forbidden (403), and neither registers a session.
C26_HandshakeAuthenticated ==
  /\ [](\A s \in DOMAIN sessions : tokenOf(sessions[s]) # NoToken)
  /\ [][\A a \in Agents \cup {NoAgent}, token \in Tokens :
          handshake(a, token) =>
            /\ sessions' # sessions =>
                 /\ a # NoAgent /\ token # NoToken /\ token = tokenOf(a)
                 /\ sessions' = Append(sessions, a)
            /\ (a = NoAgent \/ token = NoToken) =>
                 commsResult' = "401" /\ sessions' = sessions
            /\ (a # NoAgent /\ token # NoToken /\ token # tokenOf(a)) =>
                 commsResult' = "403" /\ sessions' = sessions]_vars

\* an agent opened its session and a handshake with a token that was not
\* minted for the agent id it names was then refused
C26_Witness ==
  /\ sessions # <<>>
  /\ commsResult = "403"

(***************************************************************************)
(* Claims about dispatch (checked under SpecDispatch)                      *)
(***************************************************************************)
DispatchMembers == Range(dispatchAgentList)

AllSucceeded == \A i \in 1..Len(dispatch.report) : dispatch.report[i].status = "success"
AllFailed == \A i \in 1..Len(dispatch.report) : dispatch.report[i].status = "error"

\* the DM channels with a member of the dispatched team at either end
MemberDmChannels ==
  {i \in 1..Len(dms) : dms[i].key[1] \in DispatchMembers \/ dms[i].key[2] \in DispatchMembers}

\* the DM channels with members of the dispatched team at both ends
InnerDmChannels ==
  {i \in 1..Len(dms) : dms[i].key[1] \in DispatchMembers /\ dms[i].key[2] \in DispatchMembers}

\* C22: after dispatch_team returns, whether every agent succeeded, some
\* failed or all failed, the team it created no longer exists in the team
\* manager, and its group channel, its artifacts and the DM channels of its
\* members are gone from the message system.
C22_DispatchLeavesNothing ==
  dispatch.st = "returned" =>
    /\ DispatchTeam \notin teams
    /\ DispatchTeam \notin DOMAIN teamChats
    /\ DispatchTeam \notin DOMAIN sharedArtifacts
    /\ MemberDmChannels = {}

\* what remains of C22 when the DM channels between a member and an agent
\* outside the team are left aside: it holds for every outcome
C22_ExceptOutsideDms ==
  dispatch.st = "returned" =>
    /\ DispatchTeam \notin teams
    /\ DispatchTeam \notin DOMAIN teamChats
    /\ DispatchTeam \notin DOMAIN sharedArtifacts
    /\ InnerDmChannels = {}

\* dispatch_team returned with one success and one failure after the lead
\* of the team had sent a DM to the lead of another team
C22_Witness ==
  /\ dispatch.st = "returned"
  /\ ~AllSucceeded
  /\ ~AllFailed
  /\ MemberDmChannels # {}

(***************************************************************************)
(* Claims about the DM channels (checked under SpecDm)                     *)
(***************************************************************************)
\* the entry of the DM map for the pair of a and b, if there is one
SharedChannel(a, b) == DmIndex(dmKey(a, b))

\* C27: dm_read with a sender filter returns only that sender's unread
\* messages, advances the receiver's cursor in the channel shared with that
\* sender to the end of the channel, and leaves the receiver's cursors in
\* every other DM channel unchanged.
C27_FilteredReadFrame ==
  [][\A a \in Agents : \A f \in Agents \ {a} :
       dmRead(a, f) =>
         LET out == SortByTs(dmReadAll(Len(dms), a, f))
         IN /\ \A k \in 1..Len(out) : out[k].from = f
            /\ \A i \in SharedChannel(a, f) :
                 Ids(out) = {dms[i].messages[k].id :
                               k \in {j \in (getCursor(dms[i], a) + 1)..Len(dms[i].messages) :
                                        dms[i].messages[j].from = f}}
            /\ \A i \in 1..Len(dms) :
                 getCursor(dms'[i], a) = IF i \in SharedChannel(a, f)
                                           THEN Len(dms[i].messages)
                                           ELSE getCursor(dms[i], a)]_vars

\* what holds of the filtered read as the message system performs it: it
\* returns only that sender's unread messages and moves no cursor at all
C27_FilteredReadMovesNoCursor ==
  [][\A a \in Agents : \A f \in Agents \ {a} :
       dmRead(a, f) =>
         LET out == SortByTs(dmReadAll(Len(dms), a, f))
         IN /\ \A k \in 1..Len(out) : out[k].from = f
            /\ \A i \in 1..Len(dms) : dms'[i].readCursors = dms[i].readCursors]_vars

\* C28: after dissolveTeamWithAgents(team, agent_ids) no DM channel with at
\* least one endpoint in agent_ids remains, including the channels whose
\* other endpoint is outside the team, while the DM channels between agents
\* outside agent_ids and the group channels and artifacts of the other teams
\* are unchanged.
C28_DissolveRemovesMemberDms ==
  [][\A t \in Teams :
       dissolveTeamWithAgents(t, Members(t)) =>
         /\ \A i \in 1..Len(dms') :
              dms'[i].key[1] \notin Members(t) /\ dms'[i].key[2] \notin Members(t)
         /\ dms' = SelectSeq(dms, LAMBDA e : e.key[1] \notin Members(t)
                                             /\ e.key[2] \notin Members(t))
         /\ \A u \in Teams \ {t} :
              /\ (u \in DOMAIN teamChats) = (u \in DOMAIN teamChats')
              /\ u \in DOMAIN teamChats => teamChats'[u] = teamChats[u]
              /\ (u \in DOMAIN sharedArtifacts) = (u \in DOMAIN sharedArtifacts')
              /\ u \in DOMAIN sharedArtifacts => sharedArtifacts'[u] = sharedArtifacts[u]]_vars

\* what holds of the dissolution as the message system performs it: exactly
\* the DM channels with both endpoints in agent_ids are removed
C28_DissolveRemovesInnerDms ==
  [][\A t \in Teams :
       dissolveTeamWithAgents(t, Members(t)) =>
         dms' = SelectSeq(dms, LAMBDA e : ~(e.key[1] \in Members(t)
                                              /\ e.key[2] \in Members(t)))]_vars

\* the messages of entry e that a read returned, in the order of the result
FromEntry(out, e) == SelectSeq(out, LAMBDA m : m \in Range(e.messages))

Increasing(seq) == \A i, j \in 1..Len(seq) : i < j => seq[i].id < seq[j].id

RelayOver == \A a \in RelayAgents : relay.pc[a] = "done"

\* the group-chat log so far is 1, 2, ... in order, odd numbers from the
\* lead and even numbers from the worker
RelayChatCounts ==
  \A i \in 1..Len(RelayChat) :
    /\ relay.texts[RelayChat[i].id] = i
    /\ RelayChat[i].from = (IF i % 2 = 1 THEN RelayLead ELSE RelayWorker)

\* C30: when two agents alternate, each one waiting, reading the group chat
\* and then posting the next number from 1 to 10, the group-chat log is at
\* every moment 1, 2, ... in order and is exactly 1..10 when both loops are
\* over; no wait of the run returns timed_out, no assertion of a loop fails,
\* and the loops never come to rest before both are over.
C30_RelayCountsToTen ==
  /\ [](\A a \in RelayAgents : ~waiters[a].timedOut)
  /\ [](\A a \in RelayAgents : relay.pc[a] # "failed")
  /\ []RelayChatCounts
  /\ [](RelayQuiescent => RelayOver)
  /\ [](RelayOver => /\ Len(RelayChat) = RelayMax
                     /\ Len(relay.log) = RelayMax
                     /\ \A n \in 1..RelayMax :
                          \E i \in 1..RelayMax :
                            relay.log[i] = [n |-> n, from |-> IF n % 2 = 1 THEN RelayLead
                                                                         ELSE RelayWorker])

\* the relay is over with ten messages in the chat, and the last wait of
\* each agent blocked before the other's post woke it
C30_Witness ==
  /\ RelayOver
  /\ Len(RelayChat) = RelayMax
  /\ \A a \in RelayAgents : waiters[a].blocked /\ ~waiters[a].timedOut

(***************************************************************************)
(* Claims about reconnects, cancellation and the agent status (checked     *)
(* under SpecAdapter)                                                      *)
(***************************************************************************)
AwaitingReconnect == {c \in CallIds : calls[c].st = "reconnecting"}

\* C31: at most one reconnect is in flight: every doSendToAgent that finds
\* the session disconnected awaits the one attempt in flight (it starts one
\* only when none is running), all of them continue or reject together when
\* the attempt settles, and a call never awaits a reconnect a second time:
\* when the reconnect fails the call rejects, and after a successful one it
\* issues its request and settles.
C31_ReconnectCoalesced ==
  /\ [](reconnectPromise <= 1)
  /\ [](AwaitingReconnect # {} => reconnectPromise = 1)
  /\ [][\A c \in CallIds :
          \/ connected
          \/ calls'[c].st = "reconnecting" /\ reconnectPromise' = 1
          \/ ~doSendToAgent(c)]_vars
  /\ [][\A c \in CallIds :
          calls[c].st \in {"resumed", "inflight", "ok", "err"}
            => calls'[c].st # "reconnecting"]_vars
  /\ [][\A ok \in BOOLEAN :
          \/ \A c \in AwaitingReconnect : calls'[c].st = (IF ok THEN "resumed" ELSE "err")
          \/ ~reconnectSettles(ok)]_vars

\* two sends await the one reconnect in flight
C31_Witness ==
  /\ reconnectPromise = 1
  /\ Cardinality(AwaitingReconnect) >= 2

InFlight(a) == {c \in CallIds : calls[c].agent = a /\ calls[c].st = "inflight"}

C40_WorkingIffInFlight ==
  /\ [](\A a \in AdapterAgents : agentStatus[a] = "working" <=> InFlight(a) # {})
  /\ [](\A a \in AdapterAgents : Cardinality(InFlight(a)) <= 1)
  /\ [][\A c \in CallIds :
          calls[c].st = "inflight" /\ calls'[c].st # "inflight"
            => agentStatus'[calls[c].agent] =
                 (IF calls'[c].st = "ok" THEN "idle" ELSE "error")]_vars

\* a request of an agent failed, the agent is in status error with no call
\* in flight, and another agent is working on its request
C40_Witness ==
  \E a, b \in AdapterAgents :
    /\ agentStatus[a] = "error" /\ InFlight(a) = {}
    /\ agentStatus[b] = "working" /\ InFlight(b) # {}

(***************************************************************************)
(* Claims about shutdown (checked under SpecShutdown)                      *)
(***************************************************************************)
RegisteredBeforeShutdown == 1..tracker.before

\* C33 as stated: on shutdown the adapter does not close the downstream
\* session until every operation registered with the tracker has settled.
C33_ClosesAfterAllTracked ==
  tracker.st = "exited" => tracker.pendingOps = {}

\* C33: on shutdown the adapter does not close the downstream session until
\* every operation that was registered with the tracker when shutdown began
\* has settled; while it waits the session stays open.
C33_ClosesAfterTrackedAtShutdown ==
  /\ tracker.st = "exited" => tracker.pendingOps \cap RegisteredBeforeShutdown = {}
  /\ tracker.st # "exited" => connected

\* the session was closed after shutdown had waited for two operations
C33_Witness ==
  /\ tracker.st = "exited"
  /\ ~connected
  /\ Cardinality(tracker.awaited) >= 2
  /\ tracker.pendingOps = {}

(***************************************************************************)
(* Claims about the lead's reply in the fixing phase (checked under        *)
(* SpecMission)                                                            *)
(***************************************************************************)
\* the mission goes on after the lead's reply: it is not in phase error and
\* the fix calls it has issued go to workers of the mission only
FixRoundProceeds ==
  /\ mission'.phase # "error"
  /\ run'.pc # "done"
  /\ Range(run'.fixAssignments) \subseteq WorkerSet

\* C34: whatever text the lead returns in the fixing phase, the mission
\* never goes to error because of that text: the assignments for ids outside
\* the worker set are dropped, the fix calls go only to workers of the
\* mission, and the mission proceeds to verifying.
C34_FixTextNeverErrors ==
  [][\A resp \in FixResponses :
       \/ FixRoundProceeds
       \/ ~fixResponseSettles(TRUE, resp)]_vars

\* what holds of the code: every reply whose array has no null entry is
\* taken without an error
C34_ExceptNullEntries ==
  [][\A resp \in {r \in FixResponses : r.kind # "nullEntry"} :
       \/ FixRoundProceeds
       \/ ~fixResponseSettles(TRUE, resp)]_vars

(***************************************************************************)
(* Claims about completed tasks and auto-start (checked under SpecTasks    *)
(* and SpecAssign)                                                         *)
(***************************************************************************)
\* C35: once complete_task has marked a task completed, its status stays
\* completed forever: no later operation and no late failure of a background
\* auto-start call for that task changes it.
C35_CompletedStaysCompleted ==
  [][\A t \in TaskIds : tasks[t].status = "completed" => tasks'[t].status = "completed"]_vars

IncreasingIds(seq) == \A i, j \in 1..Len(seq) : i < j => seq[i].id < seq[j].id

\* C37: no message of a group channel is skipped.  While the channel of the
\* team exists, every message in it that somebody other than reader R posted
\* has been returned to R exactly when it lies at or before R's cursor, that
\* is, when R has read since the post; a read by R returns exactly the
\* messages of the other senders beyond the cursor, in append order, none
\* of which an earlier read had returned, and moves the cursor to the end.
C37_NoMessageSkipped ==
  /\ [](\A a \in Agents :
          LET g == GroupChannelOf(a)
              out == readMessagesOut(g, a)
          IN /\ \A i \in 1..Len(g.messages) :
                  g.messages[i].from # a
                    => (g.messages[i].id \in delivered[a] <=> i <= getCursor(g, a))
             /\ Ids(out) = {g.messages[i].id : i \in UnreadOthers(g, a)}
             /\ IncreasingIds(out))
  /\ [][\A a \in Agents :
          \/ /\ delivered'[a] \ delivered[a] = Ids(readMessagesOut(GroupChannelOf(a), a))
             /\ Ids(readMessagesOut(GroupChannelOf(a), a)) \cap delivered[a] = {}
             /\ getCursor(GroupChannelOf(a)', a) = Len(GroupChannelOf(a).messages)
             /\ GroupChannelOf(a)'.messages = GroupChannelOf(a).messages
          \/ ~groupChatRead(TeamOf(a), a)]_vars

\* A reader has read a teammate's message, has posted itself since, and a
\* teammate's later message waits beyond its cursor.
C37_Witness ==
  \E a \in Agents :
    LET g == GroupChannelOf(a)
    IN \E i, j, k \in 1..Len(g.messages) :
         /\ i < j /\ j < k
         /\ g.messages[i].from # a /\ g.messages[i].id \in delivered[a]
         /\ g.messages[j].from = a
         /\ g.messages[k].from # a /\ k > getCursor(g, a)
         /\ getCursor(g, a) >= i

\* the teams that are not in the map of the TeamManager
NoSuchTeams == Teams \ teams

Running(p) == p \in {"executing", "verifying", "fixing", "reviewing"}

\* C36: every launched mission eventually reaches completed or error,
\* provided every adapter call and every verify command eventually returns
\* or fails: no mission stays in executing, verifying, fixing or reviewing
\* forever.
C36_MissionTerminates == Running(mission.phase) ~> Terminal(mission.phase)

\* A mission whose verify command failed and whose fix round has run through
\* has ended.
C36_Witness ==
  /\ run.pc = "done"
  /\ Terminal(mission.phase)
  /\ Len(mission.verificationLog) > 1
  /\ \E i \in 1..Len(phaseLog) : phaseLog[i] = "fixing"

\* the calls a step submits
NewCalls == (Len(calls) + 1)..Len(calls')

\* C38: at the moment auto-start moves a task to in-progress and issues its
\* adapter call, the assignee has no other adapter call in flight or waiting
\* in its queue: the call submitted before it for the same agent, if any,
\* has settled.
C38_AutoStartFindsAgentFree ==
  [][\A c \in NewCalls :
       callers'[c].tool \in {"assign_task", "complete_task"}
         => \/ calls'[c].prev = NoCall
            \/ Settled(calls'[calls'[c].prev].st)]_vars

\* one complete_task call has started two tasks of one agent
DoubleAutoStart ==
  \E c \in CallIds \ {1} :
    /\ calls[c].prev = c - 1
    /\ calls[c].st = "queued" /\ calls[c - 1].st = "queued"
    /\ callers[c].tool = "complete_task" /\ callers[c - 1].tool = "complete_task"
    /\ connected


(***************************************************************************)
(* Specifications                                                          *)
(***************************************************************************)
\* the adapter under concurrent callers, aborts and connection loss
InitAdapter == AdapterInit /\ BusInit /\ MissionInit /\ TaskInit /\ ToolInit /\ CommsInit
NextAdapter ==
  \/ \E a \in AdapterAgents, s \in BOOLEAN : sendToAgent(a, s)
       /\ UNCHANGED <<busVars, waitVars, missionVars, taskVars, toolVars, commsVars>>
  \/ \E c \in CallIds : doSendToAgent(c) /\ UNCHANGED <<busVars, waitVars, missionVars, taskVars, toolVars, commsVars>>
  \/ \E ok \in BOOLEAN : reconnectSettles(ok) /\ UNCHANGED <<busVars, waitVars, missionVars, taskVars, toolVars, commsVars>>
  \/ \E c \in CallIds : resumeAfterReconnect(c) /\ UNCHANGED <<busVars, waitVars, missionVars, taskVars, toolVars, commsVars>>
  \/ \E c \in CallIds, ok \in BOOLEAN : callSettles(c, ok)
       /\ UNCHANGED <<busVars, waitVars, missionVars, taskVars, toolVars, commsVars>>
  \/ \E a \in AdapterAgents : abortAgent(a) /\ UNCHANGED <<busVars, waitVars, missionVars, taskVars, toolVars, commsVars>>
  \/ \E c \in CallIds : signalAborts(c) /\ UNCHANGED <<busVars, waitVars, missionVars, taskVars, toolVars, commsVars>>
  \/ connectionLost /\ UNCHANGED <<busVars, waitVars, missionVars, taskVars, toolVars, commsVars>>
SpecAdapter == InitAdapter /\ [][NextAdapter]_vars

\* the group channels, the lead channel and the artifact logs of the bus
InitBus == AdapterInit /\ BusInit /\ MissionInit /\ TaskInit /\ ToolInit /\ CommsInit
NextBus ==
  \/ \E a \in Agents : groupChatPost(TeamOf(a), a) /\ UNCHANGED <<adapterVars, missionVars, taskVars, toolVars, commsVars>>
  \/ \E a \in Agents : groupChatRead(TeamOf(a), a) /\ UNCHANGED <<adapterVars, missionVars, taskVars, toolVars, commsVars>>
  \/ \E a \in Agents : groupChatPeek(TeamOf(a), a) /\ UNCHANGED <<adapterVars, missionVars, taskVars, toolVars, commsVars>>
  \/ \E a \in Leads : leadChatPost(a) /\ UNCHANGED <<adapterVars, missionVars, taskVars, toolVars, commsVars>>
  \/ \E a \in Leads : leadChatRead(a) /\ UNCHANGED <<adapterVars, missionVars, taskVars, toolVars, commsVars>>
  \/ \E a \in Leads : leadChatPeek(a) /\ UNCHANGED <<adapterVars, missionVars, taskVars, toolVars, commsVars>>
  \/ \E a \in Agents : shareArtifact(TeamOf(a), a) /\ UNCHANGED <<adapterVars, missionVars, taskVars, toolVars, commsVars>>
  \/ \E t \in Teams : dissolveTeam(t) /\ UNCHANGED <<adapterVars, missionVars, taskVars, toolVars, commsVars>>
  \/ \E t \in Teams : dissolveTeamWithAgents(t, Members(t))
       /\ UNCHANGED <<adapterVars, missionVars, taskVars, toolVars, commsVars>>
SpecBus == InitBus /\ [][NextBus]_vars

\* waits against posts, reads, timeouts and dissolution
InitWait == AdapterInit /\ BusInit /\ MissionInit /\ TaskInit /\ ToolInit /\ CommsInit
NextWait ==
  \/ \E a \in Agents : wait(TeamOf(a), a, a \in Leads) /\ UNCHANGED <<adapterVars, missionVars, taskVars, toolVars, commsVars>>
  \/ \E a \in Agents : waitTimeout(a) /\ UNCHANGED <<adapterVars, missionVars, taskVars, toolVars, commsVars>>
  \/ \E a \in Agents : nextMsgId < MaxWaitMsgs /\ groupChatPost(TeamOf(a), a)
       /\ UNCHANGED <<adapterVars, missionVars, taskVars, toolVars, commsVars>>
  \/ \E a, b \in Agents : nextMsgId < MaxWaitMsgs /\ MayDm(a, b) /\ dmSend(a, b, now)
       /\ UNCHANGED <<adapterVars, missionVars, taskVars, toolVars, commsVars>>
  \/ \E a \in Leads : nextMsgId < MaxWaitMsgs /\ leadChatPost(a)
       /\ UNCHANGED <<adapterVars, missionVars, taskVars, toolVars, commsVars>>
  \/ \E t \in Teams : dissolveTeam(t) /\ UNCHANGED <<adapterVars, missionVars, taskVars, toolVars, commsVars>>
  \/ \E t \in Teams : dissolveTeamWithAgents(t, Members(t))
       /\ UNCHANGED <<adapterVars, missionVars, taskVars, toolVars, commsVars>>
SpecWait == InitWait /\ [][NextWait]_vars

\* the DM channels of the bus
InitDm == AdapterInit /\ BusInit /\ MissionInit /\ TaskInit /\ ToolInit /\ CommsInit
NextDm ==
  \/ \E a, b \in Agents, ts \in Timestamps : MayDm(a, b) /\ dmSend(a, b, ts)
       /\ UNCHANGED <<adapterVars, missionVars, taskVars, toolVars, commsVars>>
  \/ \E a \in Agents, f \in Agents \cup {NoAgent} : dmRead(a, f)
       /\ UNCHANGED <<adapterVars, missionVars, taskVars, toolVars, commsVars>>
  \/ \E a \in Agents : dmPeek(a) /\ UNCHANGED <<adapterVars, missionVars, taskVars, toolVars, commsVars>>
  \/ \E t \in Teams : dissolveTeamWithAgents(t, Members(t))
       /\ UNCHANGED <<adapterVars, missionVars, taskVars, toolVars, commsVars>>
SpecDm == InitDm /\ [][NextDm]_vars

\* one mission from launch to eviction
InitMission == AdapterInit /\ BusInit /\ MissionInit /\ TaskInit /\ ToolInit /\ CommsInit
NextMission ==
  \/ \E vc \in BOOLEAN, mr \in 0..MaxRetries : launch_mission(vc, mr) /\ UNCHANGED <<adapterVars, taskVars, toolVars, commsVars>>
  \/ \E i \in 1..Len(missionWorkerIds), ok \in BOOLEAN : workerPromiseSettles(i, ok)
       /\ UNCHANGED <<adapterVars, taskVars, toolVars, commsVars>>
  \/ \E ok \in BOOLEAN : leadPromiseSettles(ok) /\ UNCHANGED <<adapterVars, taskVars, toolVars, commsVars>>
  \/ workersDone /\ UNCHANGED <<adapterVars, taskVars, toolVars, commsVars>>
  \/ leadAwaited /\ UNCHANGED <<adapterVars, taskVars, toolVars, commsVars>>
  \/ \E passed \in BOOLEAN : verifyCommandExits(passed) /\ UNCHANGED <<adapterVars, taskVars, toolVars, commsVars>>
  \/ \E ok \in BOOLEAN, resp \in FixResponses : fixResponseSettles(ok, resp)
       /\ UNCHANGED <<adapterVars, taskVars, toolVars, commsVars>>
  \/ \E i \in 1..MaxFix, ok \in BOOLEAN : fixResultSettles(i, ok) /\ UNCHANGED <<adapterVars, taskVars, toolVars, commsVars>>
  \/ fixRoundDone /\ UNCHANGED <<adapterVars, taskVars, toolVars, commsVars>>
  \/ \E ok \in BOOLEAN : compilationSettles(ok) /\ UNCHANGED <<adapterVars, taskVars, toolVars, commsVars>>
  \/ evictMission /\ UNCHANGED <<adapterVars, taskVars, toolVars, commsVars>>
  \/ timePasses /\ UNCHANGED <<adapterVars, taskVars, toolVars, commsVars>>
  \/ \E a \in {missionLeadId, missionWorkerIds[1]} : missionGroupPost(a) /\ UNCHANGED <<adapterVars, taskVars, toolVars, commsVars>>
SpecMission == InitMission /\ [][NextMission]_vars

\* the mission run observed by await_mission, mission_status and
\* get_mission_comms through the retention period
RetentionFixResponses ==
  {r \in FixResponses : r.kind \in {"noJson", "nullEntry"} \/ r.ids = <<missionWorkerIds[1]>>}
InitRetention == AdapterInit /\ BusInit /\ MissionInit /\ TaskInit /\ ToolInit /\ CommsInit
NextRetention ==
  \/ \E vc \in BOOLEAN, mr \in 0..MaxRetries : launch_mission(vc, mr) /\ UNCHANGED <<adapterVars, taskVars, toolVars, commsVars>>
  \/ \E i \in 1..Len(missionWorkerIds), ok \in BOOLEAN : workerPromiseSettles(i, ok)
       /\ UNCHANGED <<adapterVars, taskVars, toolVars, commsVars>>
  \/ \E ok \in BOOLEAN : leadPromiseSettles(ok) /\ UNCHANGED <<adapterVars, taskVars, toolVars, commsVars>>
  \/ workersDone /\ UNCHANGED <<adapterVars, taskVars, toolVars, commsVars>>
  \/ leadAwaited /\ UNCHANGED <<adapterVars, taskVars, toolVars, commsVars>>
  \/ \E passed \in BOOLEAN : verifyCommandExits(passed) /\ UNCHANGED <<adapterVars, taskVars, toolVars, commsVars>>
  \/ \E ok \in BOOLEAN, resp \in RetentionFixResponses : fixResponseSettles(ok, resp)
       /\ UNCHANGED <<adapterVars, taskVars, toolVars, commsVars>>
  \/ \E i \in 1..MaxFix, ok \in BOOLEAN : fixResultSettles(i, ok) /\ UNCHANGED <<adapterVars, taskVars, toolVars, commsVars>>
  \/ fixRoundDone /\ UNCHANGED <<adapterVars, taskVars, toolVars, commsVars>>
  \/ \E ok \in BOOLEAN : compilationSettles(ok) /\ UNCHANGED <<adapterVars, taskVars, toolVars, commsVars>>
  \/ evictMission /\ UNCHANGED <<adapterVars, taskVars, toolVars, commsVars>>
  \/ timePasses /\ UNCHANGED <<adapterVars, taskVars, toolVars, commsVars>>
  \/ \E id \in MissionIds : await_mission(id) /\ UNCHANGED <<adapterVars, taskVars, toolVars, commsVars>>
  \/ \E timedOut \in BOOLEAN : awaitPolls(timedOut) /\ UNCHANGED <<adapterVars, taskVars, toolVars, commsVars>>
  \/ missionGroupPost(missionLeadId) /\ UNCHANGED <<adapterVars, taskVars, toolVars, commsVars>>
SpecRetention == InitRetention /\ [][NextRetention]_vars

\* task graphs: assign_task and complete_task for the tasks of one agent,
\* with the adapter calls that start them
TaskAssignee == CHOOSE a \in AdapterAgents : TRUE
InitTasks == AdapterInit /\ BusInit /\ MissionInit /\ TaskInit /\ ToolInit /\ CommsInit
NextTasks ==
  \/ \E deps \in DependencyLists : assign_task(TaskAssignee, deps)
       /\ Len(tasks') + Len(calls') <= MaxTaskWork
       /\ UNCHANGED <<busVars, waitVars, missionVars, toolVars, commsVars>>
  \/ \E t \in TaskIds \cup {NoTask} : complete_task(t)
       /\ Len(tasks') + Len(calls') <= MaxTaskWork
       /\ UNCHANGED <<busVars, waitVars, missionVars, toolVars, commsVars>>
  \/ \E c \in CallIds : doSendToAgent(c)
       /\ UNCHANGED <<busVars, waitVars, missionVars, taskVars, toolVars, commsVars>>
  \/ \E c \in CallIds, ok \in BOOLEAN : toolCallSettles(c, ok)
       /\ UNCHANGED <<busVars, waitVars, missionVars, toolVars, commsVars>>
SpecTasks == InitTasks /\ [][NextTasks]_vars

\* auto-start: assign_task and complete_task for the tasks of two agents
InitAssign == AdapterInit /\ BusInit /\ MissionInit /\ TaskInit /\ ToolInit /\ CommsInit
NextAssign ==
  \/ \E a \in AdapterAgents, deps \in DependencyLists :
         Len(tasks) < MaxAssigned /\ assign_task(a, deps)
       /\ Len(calls') <= MaxOperatorCalls
       /\ UNCHANGED <<busVars, waitVars, missionVars, toolVars, commsVars>>
  \/ \E t \in TaskIds \cup {NoTask} : complete_task(t)
       /\ Len(calls') <= MaxOperatorCalls
       /\ UNCHANGED <<busVars, waitVars, missionVars, toolVars, commsVars>>
  \/ \E c \in CallIds : doSendToAgent(c)
       /\ UNCHANGED <<busVars, waitVars, missionVars, taskVars, toolVars, commsVars>>
  \/ \E c \in CallIds, ok \in BOOLEAN : toolCallSettles(c, ok)
       /\ UNCHANGED <<busVars, waitVars, missionVars, toolVars, commsVars>>
SpecAssign == InitAssign /\ [][NextAssign]_vars

\* send_message and remove_agent on the agents of one team, against tasks
\* without prerequisites, adapter calls and connection loss
InitOperator == AdapterInit /\ BusInit /\ MissionInit /\ TaskInit /\ ToolInit /\ CommsInit
NextOperator ==
  \/ \E a \in AdapterAgents : send_message(a) /\ Len(calls') <= MaxOperatorCalls
       /\ UNCHANGED <<busVars, waitVars, missionVars, toolVars, commsVars>>
  \/ \E a \in AdapterAgents : remove_agent(a) /\ UNCHANGED <<busVars, waitVars, missionVars, toolVars, commsVars>>
  \/ \E a \in AdapterAgents : Len(tasks) < MaxOwnedTasks /\ assign_task(a, {})
       /\ Len(calls') <= MaxOperatorCalls
       /\ UNCHANGED <<busVars, waitVars, missionVars, toolVars, commsVars>>
  \/ \E c \in CallIds : doSendToAgent(c)
       /\ UNCHANGED <<busVars, waitVars, missionVars, taskVars, toolVars, commsVars>>
  \/ \E c \in CallIds : resumeAfterReconnect(c)
       /\ UNCHANGED <<busVars, waitVars, missionVars, taskVars, toolVars, commsVars>>
  \/ \E c \in CallIds, ok \in BOOLEAN : toolCallSettles(c, ok)
       /\ UNCHANGED <<busVars, waitVars, missionVars, toolVars, commsVars>>
  \/ \E ok \in BOOLEAN : toolReconnectSettles(ok)
       /\ UNCHANGED <<busVars, waitVars, missionVars, toolVars, commsVars>>
  \/ connectionLost /\ UNCHANGED <<busVars, waitVars, missionVars, taskVars, toolVars, commsVars>>
SpecOperator == InitOperator /\ [][NextOperator]_vars
\* one steer_team call against calls in flight and the removal of agents
InitSteer == AdapterInit /\ BusInit /\ MissionInit /\ TaskInit /\ ToolInit /\ CommsInit
NextSteer ==
  \/ \E a \in AdapterAgents : Len(calls) < MaxCalls - 1 /\ send_message(a)
       /\ UNCHANGED <<busVars, waitVars, missionVars, toolVars, commsVars>>
  \/ \E ids \in SteerIdLists : steer.st = "idle" /\ steer_team(TRUE, ids)
       /\ UNCHANGED <<missionVars, dispatch, relay, tracker, commsVars>>
  \/ steer.st = "idle" /\ steer_team(FALSE, <<>>) /\ UNCHANGED <<missionVars, dispatch, relay, tracker, commsVars>>
  \/ steerTeamReturns /\ UNCHANGED <<adapterVars, busVars, waitVars, missionVars, taskVars,
                                     dispatch, relay, tracker, commsVars>>
  \/ \E a \in AdapterAgents : remove_agent(a)
       /\ UNCHANGED <<busVars, waitVars, missionVars, toolVars, commsVars>>
  \/ \E c \in CallIds : doSendToAgent(c)
       /\ UNCHANGED <<busVars, waitVars, missionVars, taskVars, toolVars, commsVars>>
  \/ \E c \in CallIds, ok \in BOOLEAN : toolCallSettles(c, ok)
       /\ UNCHANGED <<busVars, waitVars, missionVars, toolVars, commsVars>>
SpecSteer == InitSteer /\ [][NextSteer]_vars

\* the comms server: one agent receives its token with its first request,
\* opens its session and calls the tools with its own or another agent id,
\* while handshakes arrive with every combination of agent id and token
InitComms == AdapterInit /\ BusInit /\ MissionInit /\ TaskInit /\ ToolInit /\ CommsInit
NextComms ==
  \/ \E t \in Teams : create_team(t)
       /\ UNCHANGED <<adapterVars, busVars, waitVars, taskVars, toolVars, commsVars>>
  \/ \E a \in AdapterAgents : calls = <<>> /\ sendToAgent(a, FALSE)
       /\ UNCHANGED <<busVars, waitVars, missionVars, taskVars, toolVars, commsVars>>
  \/ \E c \in CallIds : doSendToAgent(c)
       /\ UNCHANGED <<busVars, waitVars, missionVars, taskVars, toolVars, commsVars>>
  \/ \E a \in Agents \cup {NoAgent}, token \in Tokens :
       (\A s \in DOMAIN sessions : sessions[s] # a) /\ handshake(a, token)
       /\ UNCHANGED <<adapterVars, busVars, waitVars, missionVars, taskVars, toolVars>>
  \/ \E s \in DOMAIN sessions, a \in Agents : group_chat_post(s, a) /\ nextMsgId' <= MaxCommsMsgs
       /\ UNCHANGED <<adapterVars, missionVars, taskVars, toolVars>>
  \/ \E s \in DOMAIN sessions, a \in Agents : group_chat_read(s, a)
       /\ UNCHANGED <<adapterVars, missionVars, taskVars, toolVars>>
  \/ \E s \in DOMAIN sessions, a, b \in Agents : dm_send(s, a, b) /\ nextMsgId' <= MaxCommsMsgs
       /\ UNCHANGED <<adapterVars, missionVars, taskVars, toolVars>>
  \/ \E s \in DOMAIN sessions, a \in Agents, f \in Agents \cup {NoAgent} : dm_read(s, a, f)
       /\ UNCHANGED <<adapterVars, missionVars, taskVars, toolVars>>
  \/ \E s \in DOMAIN sessions, a \in Agents : share(s, a) /\ nextMsgId' <= MaxCommsMsgs
       /\ UNCHANGED <<adapterVars, missionVars, taskVars, toolVars>>
  \/ \E s \in DOMAIN sessions, a \in Agents : lead_chat_post(s, a) /\ nextMsgId' <= MaxCommsMsgs
       /\ UNCHANGED <<adapterVars, missionVars, taskVars, toolVars>>
  \/ \E s \in DOMAIN sessions, a \in Agents : lead_chat_read(s, a)
       /\ UNCHANGED <<adapterVars, missionVars, taskVars, toolVars>>
  \/ \E s \in DOMAIN sessions, a \in Agents : lead_chat_peek(s, a)
       /\ UNCHANGED <<adapterVars, missionVars, taskVars, toolVars>>
SpecComms == InitComms /\ [][NextComms]_vars

\* one dispatch_team call with per-agent timeouts, while the agents of the
\* team open their sessions and use the comms tools and another team exists
InitDispatch == AdapterInit /\ BusInit /\ MissionInit /\ TaskInit /\ ToolInit /\ CommsInit
NextDispatch ==
  \/ \E t \in Teams \ {DispatchTeam} : create_team(t)
       /\ UNCHANGED <<adapterVars, busVars, waitVars, taskVars, toolVars, commsVars>>
  \/ dispatch_team /\ UNCHANGED <<busVars, waitVars, steer, relay, tracker, commsVars>>
  \/ \E c \in CallIds : doSendToAgent(c)
       /\ UNCHANGED <<busVars, waitVars, missionVars, taskVars, toolVars, commsVars>>
  \/ \E c \in CallIds, ok \in BOOLEAN : toolCallSettles(c, ok)
       /\ UNCHANGED <<busVars, waitVars, missionVars, toolVars, commsVars>>
  \/ \E i \in 1..Len(dispatch.timedOut) : dispatchTimeout(i)
       /\ UNCHANGED <<busVars, waitVars, missionVars, taskVars, steer, relay, tracker, commsVars>>
  \/ dispatchReturns /\ UNCHANGED <<adapterVars, taskVars, steer, relay, tracker, commsVars>>
  \/ \E a \in AdapterAgents :
       (\A s \in DOMAIN sessions : sessions[s] # a) /\ handshake(a, tokenOf(a))
       /\ UNCHANGED <<adapterVars, busVars, waitVars, missionVars, taskVars, toolVars>>
  \/ \E s \in DOMAIN sessions : group_chat_post(s, sessions[s]) /\ nextMsgId' <= MaxCommsMsgs
       /\ UNCHANGED <<adapterVars, missionVars, taskVars, toolVars>>
  \/ \E s \in DOMAIN sessions, b \in Agents :
       dm_send(s, sessions[s], b) /\ nextMsgId' <= MaxCommsMsgs
       /\ UNCHANGED <<adapterVars, missionVars, taskVars, toolVars>>
  \/ \E s \in DOMAIN sessions : share(s, sessions[s]) /\ nextMsgId' <= MaxCommsMsgs
       /\ UNCHANGED <<adapterVars, missionVars, taskVars, toolVars>>
SpecDispatch == InitDispatch /\ [][NextDispatch]_vars

\* DMs in both directions between two teammates and between two leads,
\* read by the three agents
InitPair == AdapterInit /\ BusInit /\ MissionInit /\ TaskInit /\ ToolInit /\ CommsInit
NextPair ==
  \/ \E a, b \in Agents, ts \in Timestamps : a # b /\ MayDm(a, b) /\ dmSend(a, b, ts)
       /\ UNCHANGED <<adapterVars, missionVars, taskVars, toolVars, commsVars>>
  \/ \E a \in Agents : dmRead(a, NoAgent)
       /\ UNCHANGED <<adapterVars, missionVars, taskVars, toolVars, commsVars>>
SpecPair == InitPair /\ [][NextPair]_vars

\* the counting relay: the two agentTurn loops run concurrently
InitRelay == AdapterInit /\ BusInit /\ MissionInit /\ TaskInit /\ ToolInit /\ CommsInit
NextRelay ==
  \/ \E a \in RelayAgents : relayWaitCall(a)
       /\ UNCHANGED <<adapterVars, missionVars, taskVars, steer, dispatch, tracker, commsVars>>
  \/ \E a \in RelayAgents : relayWaitReturns(a)
       /\ UNCHANGED <<adapterVars, missionVars, taskVars, steer, dispatch, tracker, commsVars>>
  \/ \E a \in RelayAgents : relayRead(a)
       /\ UNCHANGED <<adapterVars, missionVars, taskVars, steer, dispatch, tracker, commsVars>>
  \/ \E a \in RelayAgents : relayPost(a)
       /\ UNCHANGED <<adapterVars, missionVars, taskVars, steer, dispatch, tracker, commsVars>>
  \/ \E a \in RelayAgents : relayPush(a)
       /\ UNCHANGED <<adapterVars, missionVars, taskVars, steer, dispatch, tracker, commsVars>>
SpecRelay == InitRelay /\ [][NextRelay]_vars

\* shutdown while tracked operations are registered and settle
InitShutdown == AdapterInit /\ BusInit /\ MissionInit /\ TaskInit /\ ToolInit /\ CommsInit
NextShutdown ==
  \/ trackOp
       /\ UNCHANGED <<busVars, waitVars, missionVars, taskVars, steer, dispatch, relay, commsVars>>
  \/ \E o \in 1..MaxOps : opSettles(o)
       /\ UNCHANGED <<busVars, waitVars, missionVars, taskVars, steer, dispatch, relay, commsVars>>
  \/ shutdown
       /\ UNCHANGED <<busVars, waitVars, missionVars, taskVars, steer, dispatch, relay, commsVars>>
  \/ disconnectResumes
       /\ UNCHANGED <<busVars, waitVars, missionVars, taskVars, steer, dispatch, relay, commsVars>>
SpecShutdown == InitShutdown /\ [][NextShutdown]_vars

\* posts and reads on the group channels, and the dissolution of a team
InitGroup == AdapterInit /\ BusInit /\ MissionInit /\ TaskInit /\ ToolInit /\ CommsInit
NextGroup ==
  \/ \E a \in Agents : groupChatPost(TeamOf(a), a) /\ UNCHANGED <<adapterVars, missionVars, taskVars, toolVars, commsVars>>
  \/ \E a \in Agents : groupChatRead(TeamOf(a), a) /\ UNCHANGED <<adapterVars, missionVars, taskVars, toolVars, commsVars>>
  \/ \E t \in Teams : dissolveTeam(t) /\ UNCHANGED <<adapterVars, missionVars, taskVars, toolVars, commsVars>>
SpecGroup == InitGroup /\ [][NextGroup]_vars

\* the comms server when teams are dissolved: members of a team receive their
\* tokens and open sessions, the operator dissolves and creates teams, and
\* the sessions go on calling the tools
InitFormer == AdapterInit /\ BusInit /\ MissionInit /\ TaskInit /\ ToolInit /\ CommsInit
NextFormer ==
  \/ \E t \in Teams : create_team(t)
       /\ UNCHANGED <<adapterVars, busVars, waitVars, taskVars, toolVars, commsVars>>
  \/ \E t \in Teams : dissolve_team(t)
       /\ UNCHANGED <<adapterVars, taskVars, toolVars, commsVars>>
  \/ \E a \in AdapterAgents : calls = <<>> /\ findAgentContext(a) /\ sendToAgent(a, FALSE)
       /\ UNCHANGED <<busVars, waitVars, missionVars, taskVars, toolVars, commsVars>>
  \/ \E c \in CallIds : doSendToAgent(c)
       /\ UNCHANGED <<busVars, waitVars, missionVars, taskVars, toolVars, commsVars>>
  \/ \E a \in Agents :
       (\A s \in DOMAIN sessions : sessions[s] # a) /\ handshake(a, tokenOf(a))
       /\ UNCHANGED <<adapterVars, busVars, waitVars, missionVars, taskVars, toolVars>>
  \/ \E s \in DOMAIN sessions, a \in Agents : CommsRequest(s, a) /\ nextMsgId' <= MaxCommsMsgs
       /\ UNCHANGED <<adapterVars, missionVars, taskVars, toolVars>>
SpecFormer == InitFormer /\ [][NextFormer]_vars

\* the replies of the lead to the fix prompt with no more assignments than
\* the team has workers
TeamSizedFixResponses == {resp \in FixResponses : Len(resp.ids) <= Len(missionWorkerIds)}

\* one mission run in which every adapter call and every verify command
\* returns or fails, and every await whose promise has settled resumes
MissionCallsReturn ==
  /\ \/ \E i \in 1..Len(missionWorkerIds), ok \in BOOLEAN : workerPromiseSettles(i, ok)
     \/ \E ok \in BOOLEAN : leadPromiseSettles(ok)
     \/ \E passed \in BOOLEAN : verifyCommandExits(passed)
     \/ \E ok \in BOOLEAN, resp \in TeamSizedFixResponses : fixResponseSettles(ok, resp)
     \/ \E i \in 1..MaxFix, ok \in BOOLEAN : fixResultSettles(i, ok)
     \/ \E ok \in BOOLEAN : compilationSettles(ok)
  /\ UNCHANGED <<adapterVars, taskVars, toolVars, commsVars>>
MissionResumes ==
  /\ workersDone \/ leadAwaited \/ fixRoundDone
  /\ UNCHANGED <<adapterVars, taskVars, toolVars, commsVars>>
InitMissionLive == AdapterInit /\ BusInit /\ MissionInit /\ TaskInit /\ ToolInit /\ CommsInit
NextMissionLive ==
  \/ \E vc \in BOOLEAN, mr \in 0..MaxRetries : launch_mission(vc, mr)
       /\ UNCHANGED <<adapterVars, taskVars, toolVars, commsVars>>
  \/ MissionCallsReturn
  \/ MissionResumes
SpecMissionLive ==
  /\ InitMissionLive /\ [][NextMissionLive]_vars
  /\ WF_vars(MissionCallsReturn) /\ WF_vars(MissionResumes)

====
